---- MODULE Spec2Model ----
(***************************************************************************)
(* DeliverEase: the chat server's session store and conversation engine    *)
(* (src/src/server.ts), the shared AIAssistant (src/unnamed/part_000), the *)
(* intent handler (src/src/llmHandler.ts) and the order store              *)
(* (src/src/database.ts).                                                  *)
(*                                                                         *)
(* Time is counted in minutes: Date.now() is the variable now, and the     *)
(* millisecond constants of the source are written in minutes.             *)
(* A string the code inspects (a chat message, an OTP, a tracking id) is a *)
(* sequence of one-character strings.                                      *)
(***************************************************************************)
EXTENDS Integers, Sequences, FiniteSets, TLC

\* ------------------------------------------------------------------ bounds
\* Last minute the clock reaches.
MaxTime == 4
\* Chat requests that may be in flight (suspended at an await) together.
MaxInFlight == 2
\* The history counter rescheduleCount stops counting here.
MaxCount == 2
MaxBaseDay == 3

\* --------------------------------------------------------------- constants
\* server.ts:14  SESSION_EXPIRATION = 2 * 60 * 1000 ms
SESSION_EXPIRATION == 2
\* server.ts:135  now - session.otpTimestamp <= 2 * 60 * 1000
OTP_VALIDITY == 2
\* server.ts:47,50  5 * 60 * 1000
EXPIRED_RETENTION == 5
\* server.ts:394  SESSION_EXPIRATION + 60000
TEST_EXPIRE_EXTRA == 1
\* the clock's first minute (Date.now() is never 0, which JavaScript reads as false)
StartTime == 1

SessionIds == {"s1", "s2"}
Reqs == 1 .. MaxInFlight
ObjIds == 1 .. (Cardinality(SessionIds) + MaxInFlight)
NoObj == 0

\* ------------------------------------------------------------ characters
Digits == {"0", "1", "2", "3", "4", "5", "6", "7", "8", "9"}
Spaces == {" "}
Letters == {"A", "B", "W", "a", "b", "w", "c", "h", "i", "t", "r", "k"}
\* \w of a JavaScript regular expression
WordChars == Digits \cup Letters \cup {"_"}

DigitVal(c) ==
  CASE c = "0" -> 0 [] c = "1" -> 1 [] c = "2" -> 2 [] c = "3" -> 3 [] c = "4" -> 4
    [] c = "5" -> 5 [] c = "6" -> 6 [] c = "7" -> 7 [] c = "8" -> 8 [] c = "9" -> 9

DigitChar(d) ==
  CASE d = 0 -> "0" [] d = 1 -> "1" [] d = 2 -> "2" [] d = 3 -> "3" [] d = 4 -> "4"
    [] d = 5 -> "5" [] d = 6 -> "6" [] d = 7 -> "7" [] d = 8 -> "8" [] d = 9 -> "9"

ToUpper(c) ==
  CASE c = "a" -> "A" [] c = "b" -> "B" [] c = "w" -> "W" [] c = "c" -> "C"
    [] c = "h" -> "H" [] c = "i" -> "I" [] c = "t" -> "T" [] c = "r" -> "R"
    [] c = "k" -> "K" [] OTHER -> c

\* String.prototype.trim
RECURSIVE TrimLeft(_)
TrimLeft(s) == IF s # << >> /\ Head(s) \in Spaces THEN TrimLeft(Tail(s)) ELSE s
RECURSIVE TrimRight(_)
TrimRight(s) ==
  IF s # << >> /\ s[Len(s)] \in Spaces THEN TrimRight(SubSeq(s, 1, Len(s) - 1)) ELSE s
Trim(s) == TrimRight(TrimLeft(s))

\* Number.prototype.toString of a non-negative integer
RECURSIVE NumToString(_)
NumToString(n) ==
  IF n < 10 THEN <<DigitChar(n)>> ELSE NumToString(n \div 10) \o <<DigitChar(n % 10)>>

\* /^\d{6}$/.test(message.trim())
IsOtpFormatAnyLength(message) ==
  LET t == Trim(message) IN t # << >> /\ \A i \in 1 .. Len(t) : t[i] \in Digits
IsOtpFormat(message) ==
  LET t == Trim(message) IN Len(t) = 6 /\ \A i \in 1 .. Len(t) : t[i] \in Digits

\* parseInt(message.trim()): the leading run of digits, NaN when there is none
NaN == -1
RECURSIVE DigitsValue(_, _)
DigitsValue(s, acc) ==
  IF s # << >> /\ Head(s) \in Digits
    THEN DigitsValue(Tail(s), acc * 10 + DigitVal(Head(s)))
    ELSE acc
parseInt(message) ==
  LET t == Trim(message)
  IN IF t # << >> /\ Head(t) \in Digits THEN DigitsValue(t, 0) ELSE NaN

\* input.match(/\bAWB\d{6}\b/i), upper-cased; << >> for null
AwbAt(s, i) ==
  /\ i + 8 <= Len(s)
  /\ ToUpper(s[i]) = "A" /\ ToUpper(s[i + 1]) = "W" /\ ToUpper(s[i + 2]) = "B"
  /\ \A k \in 3 .. 8 : s[i + k] \in Digits
  /\ (i = 1 \/ s[i - 1] \notin WordChars)
  /\ (i + 8 = Len(s) \/ s[i + 9] \notin WordChars)
extractAWB(input) ==
  LET hits == {i \in 1 .. Len(input) : AwbAt(input, i)}
  IN IF hits = {} THEN << >>
     ELSE LET i == CHOOSE j \in hits : \A k \in hits : j <= k
          IN [k \in 1 .. 9 |-> ToUpper(input[i + k - 1])]

\* ------------------------------------------------------------- messages
\* The chat messages the clients send.
Str6(d) == <<d, d, d, d, d, d>>
MsgOtpA == Str6("1")
MsgOtpB == Str6("2")
MsgSlot0 == <<"0">>
MsgSlot1 == <<"1">>
MsgSlot2 == <<"2">>
MsgSlot3 == <<"3">>
MsgSlot4 == <<"4">>
MsgText == <<"h", "i">>
MsgAwbTransit == <<"t", "r", "a", "c", "k", " ", "a", "w", "b", "7", "8", "9", "0", "1", "2">>
MsgAwbDelivered == <<"A", "W", "B", "1", "2", "3", "4", "5", "6">>
MsgAwbUnknown == <<"A", "W", "B", "0", "0", "0", "0", "0", "0">>
Messages ==
  {MsgOtpA, MsgOtpB, MsgSlot0, MsgSlot1, MsgSlot2, MsgSlot3, MsgSlot4, MsgText, MsgAwbTransit, MsgAwbDelivered,
   MsgAwbUnknown}

\* What the chat handler reads off each message, computed once: the test of
\* server.ts:130, the parseInt of server.ts:168, the extractAWB of server.ts:224 and
\* the message.trim() of server.ts:136
Parsed ==
  [m \in Messages |->
     [isOtp |-> IsOtpFormat(m), slotNumber |-> parseInt(m), awb |-> extractAWB(m),
      trimmed |-> Trim(m)]]

\* Math.floor(100000 + Math.random() * 900000): the values the model draws
OtpNumbers == {111111}

\* ---------------------------------------------------------- order store
AwbDelivered == <<"A", "W", "B", "1", "2", "3", "4", "5", "6">>
AwbTransit == <<"A", "W", "B", "7", "8", "9", "0", "1", "2">>
Awbs == {AwbDelivered, AwbTransit}

NoDate == [day |-> -1, hour |-> -1]
\* findOne's null, and a session's currentOrder: null
NullOrder ==
  [awb |-> << >>, status |-> "null", estimatedDelivery |-> NoDate,
   scheduledDelivery |-> NoDate, customerPhone |-> "", rescheduled |-> FALSE]

\* sampleOrders (its Delivered order and one of its In Transit orders); dates are
\* days after the server's start. lastUpdate, customerName and delayReason, which the
\* handlers write or print and never test, are left out.
sampleOrders ==
  [a \in Awbs |->
     IF a = AwbDelivered
       THEN [awb |-> a, status |-> "Delivered",
             estimatedDelivery |-> [day |-> 0, hour |-> 0],
             scheduledDelivery |-> NoDate, customerPhone |-> "+1234567890",
             rescheduled |-> FALSE]
       ELSE [awb |-> a, status |-> "In Transit",
             estimatedDelivery |-> [day |-> 2, hour |-> 10],
             scheduledDelivery |-> NoDate, customerPhone |-> "+1987654321",
             rescheduled |-> FALSE]]

\* Database.getOrderStatus: orders.findOne({ awb })
getOrderStatus(store, awb) == IF awb \in DOMAIN store THEN store[awb] ELSE NullOrder

\* Database.rescheduleOrder: the $set of updateOne
RescheduledDoc(doc, newDate) ==
  [doc EXCEPT !.scheduledDelivery = newDate, !.status = "Rescheduled",
              !.rescheduled = TRUE]
\* result.modifiedCount === 1: a document matched { awb } (lastUpdate: new Date()
\* changes every matched document)
RescheduleMatches(store, awb) == awb \in DOMAIN store /\ store[awb] # NullOrder
rescheduleOrder(store, awb, newDate) ==
  IF RescheduleMatches(store, awb)
    THEN [store EXCEPT ![awb] = RescheduledDoc(store[awb], newDate)]
    ELSE store

\* Database.canReschedule
canRescheduleNever(order) == FALSE
canReschedule(order) ==
  order.status # "Delivered" /\ order.status # "Out for Delivery" /\ ~order.rescheduled

\* ---------------------------------------------------------- llmHandler.ts
SlotTypes == <<"Morning", "Afternoon", "Evening">>
SlotHour(slotType) ==
  CASE slotType = "Morning" -> 9 [] slotType = "Afternoon" -> 13 [] slotType = "Evening" -> 18

\* generateRescheduleOptions: i = 1..3, date = baseDate + i days at the slot's hour
RescheduleOptionFromMorning(baseDate, i) ==
  LET slotType == SlotTypes[((i - 1) % 3) + 1]
  IN [date |-> [day |-> baseDate.day + i, hour |-> SlotHour(slotType)],
      display |-> [day |-> baseDate.day + i, slot |-> slotType]]
RescheduleOptionAt(baseDate, i) ==
  LET slotType == SlotTypes[(i % 3) + 1]
  IN [date |-> [day |-> baseDate.day + i, hour |-> SlotHour(slotType)],
      display |-> [day |-> baseDate.day + i, slot |-> slotType]]
generateRescheduleOptions(baseDate) == [i \in 1 .. 3 |-> RescheduleOptionAt(baseDate, i)]

NoOption == [date |-> NoDate, display |-> [day |-> -1, slot |-> ""]]

\* formatOrderDetails: the fields the text shows ("" for no order details)
NoDetails ==
  [awb |-> << >>, status |-> "", estimatedDelivery |-> NoDate,
   scheduledDelivery |-> NoDate, rescheduled |-> FALSE]
formatOrderDetails(order) ==
  [awb |-> order.awb, status |-> order.status,
   estimatedDelivery |-> order.estimatedDelivery,
   scheduledDelivery |-> order.scheduledDelivery, rescheduled |-> order.rescheduled]

\* An LLMResponse; a flag the code leaves undefined is FALSE, status is the order
\* status the response text spells out ("" when it spells none)
LLMResponse(text, status, nextState, awbFlag, rescheduleFlag, detailsFlag, endFlag) ==
  [response |-> text, status |-> status, nextState |-> nextState,
   requiresAwb |-> awbFlag, requiresReschedule |-> rescheduleFlag,
   showDetails |-> detailsFlag, endConversation |-> endFlag]

\* handleOrderAction
handleOrderAction(action, order) ==
  IF order = NullOrder
    THEN LLMResponse("share your tracking number", "", "AWAITING_AWB",
                     TRUE, FALSE, FALSE, FALSE)
    ELSE CASE action = "status" ->
                LLMResponse("Your order is currently", order.status, "ORDER_FOUND",
                            FALSE, FALSE, FALSE, FALSE)
           [] action = "details" ->
                LLMResponse("Here are your order details", "", "ORDER_FOUND",
                            FALSE, FALSE, TRUE, FALSE)
           [] action = "reschedule" ->
                IF ~canReschedule(order)
                  THEN LLMResponse("this order can't be rescheduled", "", "ORDER_FOUND",
                                   FALSE, FALSE, FALSE, FALSE)
                  ELSE LLMResponse("Here are some available slots", "",
                                   "RESCHEDULE_OPTIONS", FALSE, TRUE, FALSE, FALSE)
           [] OTHER ->
                LLMResponse("How else can I help with your order?", "", "ORDER_FOUND",
                            FALSE, FALSE, FALSE, FALSE)

handleGreeting ==
  LLMResponse("Hello! How can I help with your delivery?", "", "INITIAL",
              FALSE, FALSE, FALSE, FALSE)
handleFarewell ==
  LLMResponse("Thank you! Have a great day!", "", "COMPLETED", FALSE, FALSE, FALSE, TRUE)

\* What the model call of handleLlmRequest comes back with: no tool call, a
\* get_order_info call with an action, a handle_conversation call with a type, a
\* call of another name, or an error (thrown by the call or by JSON.parse)
LlmOutcomes ==
  {"no_tool_call", "status", "details", "reschedule", "other_action", "greeting",
   "farewell", "other_tool", "error"}

\* handleLlmRequest, given the outcome of the model call
handleLlmRequest(outcome, currentState, order) ==
  CASE outcome = "no_tool_call" ->
         LLMResponse("How can I help with your delivery today?", "", currentState,
                     FALSE, FALSE, FALSE, FALSE)
    [] outcome \in {"status", "details", "reschedule", "other_action"} ->
         handleOrderAction(outcome, order)
    [] outcome = "greeting" -> handleGreeting
    [] outcome = "farewell" -> handleFarewell
    [] outcome = "other_tool" ->
         LLMResponse("How can I assist with your delivery?", "", "INITIAL",
                     FALSE, FALSE, FALSE, FALSE)
    [] OTHER ->
         LLMResponse("I'm having some trouble right now", "", "INITIAL",
                     FALSE, FALSE, FALSE, FALSE)

\* --------------------------------------------------------------- state
VARIABLES
  now,               \* Date.now(), in minutes
  sweepDue,          \* the setInterval timer has fired and its callback has not run yet
  sessions,          \* the sessions Map: session id -> the session object (NoObj: no entry)
  heap,              \* the session objects
  expiredSessions,   \* the expiredSessions Set
  conversationState, \* aiAssistant.conversationState, one field of the one AIAssistant
  orders,            \* the orders collection: tracking id -> document (NullOrder: none)
  inflight,          \* the chat handlers suspended at an await
  resetPc,           \* where the reset-session handler is in resetAllOrdersToSeed
  reply,             \* the HTTP response this step sent (NoReply: none)
  rescheduleCount,   \* history: updates applied to each order since the seed, to MaxCount
  expiredAt,         \* history: when each id of expiredSessions was added (0: not in it)
  idleSwept          \* history: ids the sweep removed for idleness, until their next request

vars ==
  <<now, sweepDue, sessions, heap, expiredSessions, conversationState, orders, inflight,
    resetPc, reply, rescheduleCount, expiredAt, idleSwept>>

\* server.ts:92-98, the session a first message creates
NewSession(t) ==
  [conversationState |-> "INITIAL", currentOrder |-> NullOrder,
   rescheduleOptions |-> << >>, lastActive |-> t, otp |-> << >>, otpTimestamp |-> 0,
   otpVerified |-> FALSE]

\* an object no one refers to
FreeObj == NewSession(0)

\* a request slot that holds no handler
FreeReq ==
  [pc |-> "free", sid |-> "", obj |-> NoObj, awb |-> << >>, order |-> NullOrder,
   option |-> NoOption, state |-> ""]

Range(f) == {f[x] : x \in DOMAIN f}
Referenced(map, reqs) == (Range(map) \cup {reqs[r].obj : r \in Reqs}) \ {NoObj}
\* objects that neither the Map nor a suspended handler refers to are collected
Collect(h, map, reqs) ==
  [o \in ObjIds |-> IF o \in Referenced(map, reqs) THEN h[o] ELSE FreeObj]
\* the object a new session gets: the session's own when no suspended handler still
\* holds it, else the first spare one
FreeObjs == ObjIds \ Referenced(sessions, inflight)
OwnObj(s) == IF s = "s1" THEN 1 ELSE 2
NewObj(s) ==
  IF OwnObj(s) \in FreeObjs THEN OwnObj(s)
  ELSE CHOOSE o \in FreeObjs : \A p \in FreeObjs : o <= p

\* ------------------------------------------------------------- replies
\* res.json(...): a field the handler leaves out is FALSE, "" or empty. Two fields are
\* history and are not sent: otpVerified is the otpVerified of the handler's session
\* object when it replied, lateCode says that a rejected code was the stored one, and
\* notifier is how the sendWhatsAppUpdate of an OTP ended.
Reply(sid, code, text, state, verified) ==
  [sid |-> sid, code |-> code, response |-> text, status |-> "",
   conversationState |-> state, requiresOtp |-> FALSE, requiresReschedule |-> FALSE,
   requiresAwb |-> FALSE, showDetails |-> FALSE, endConversation |-> FALSE,
   sessionExpired |-> FALSE, orderDetails |-> NoDetails, rescheduleOptions |-> << >>,
   whatsappSent |-> FALSE, display |-> NoOption.display, otpVerified |-> verified,
   lateCode |-> FALSE, notifier |-> ""]

NoReply == Reply("", 0, "", "", FALSE)

\* server.ts:70: status 400 with the body { error: 'Session ID is required' }, which
\* has none of the fields of a chat reply
BadRequestReply == Reply("", 400, "", "", FALSE)

\* server.ts:75-83 and 111-119
ExpiredReply(sid) ==
  [Reply(sid, 200, "Your session has expired due to inactivity", "SESSION_EXPIRED", FALSE)
     EXCEPT !.endConversation = TRUE, !.sessionExpired = TRUE]

\* server.ts:140-144, 151-155, 158-162
OtpSuccessReply(sid) ==
  Reply(sid, 200, "Verification successful!", "ORDER_FOUND", TRUE)
OtpFailureReply(sid, late) ==
  [Reply(sid, 200, "Verification unsuccessful, try again later.", "INITIAL", FALSE)
     EXCEPT !.lateCode = late]
OtpPromptReply(sid) ==
  [Reply(sid, 200, "Please enter the 6-digit OTP", "AWAITING_OTP", FALSE)
     EXCEPT !.requiresOtp = TRUE]

\* server.ts:212-219
SlotRangeReply(sid, sess) ==
  Reply(sid, 200, "Please enter a number between 1 and N", "RESCHEDULE_OPTIONS",
        sess.otpVerified)

\* server.ts:190-199
RescheduledReply(sid, sess, option) ==
  [Reply(sid, 200, "Your order has been rescheduled", "ORDER_FOUND", sess.otpVerified)
     EXCEPT !.orderDetails =
              IF sess.currentOrder # NullOrder
                THEN formatOrderDetails(sess.currentOrder) ELSE NoDetails,
            !.whatsappSent =
              sess.currentOrder # NullOrder /\ sess.currentOrder.customerPhone # "",
            !.showDetails = TRUE,
            !.display = option.display]

\* server.ts:201-208
RescheduleFailedReply(sid, sess) ==
  Reply(sid, 200, "Failed to reschedule. Please try again later.", "ORDER_FOUND",
        sess.otpVerified)

\* server.ts:241-245
OtpIssuedReply(sid, outcome) ==
  [Reply(sid, 200, "For your security, please enter the 6-digit OTP", "AWAITING_OTP", FALSE)
     EXCEPT !.requiresOtp = TRUE, !.notifier = outcome]

\* server.ts:255-259
GateReply(sid) ==
  [Reply(sid, 200, "Please complete OTP verification", "AWAITING_OTP", FALSE)
     EXCEPT !.requiresOtp = TRUE]

\* server.ts:303-308, the catch of the chat handler
InternalErrorReply(sid, sess) ==
  Reply(sid, 500, "I'm having trouble processing your request.", "", sess.otpVerified)

\* server.ts:283-301, from the LLMResponse and the session after it was updated
DispatchReply(sid, sess, llm, options) ==
  [Reply(sid, 200, llm.response, sess.conversationState, sess.otpVerified)
     EXCEPT !.status = llm.status,
            !.requiresReschedule = llm.requiresReschedule,
            !.requiresAwb = llm.requiresAwb,
            !.showDetails = llm.showDetails,
            !.endConversation = llm.endConversation,
            !.orderDetails =
              IF llm.showDetails /\ sess.currentOrder # NullOrder
                THEN formatOrderDetails(sess.currentOrder) ELSE NoDetails,
            !.rescheduleOptions =
              IF llm.requiresReschedule /\ Len(options) > 0
                THEN [i \in 1 .. Len(options) |-> options[i].display] ELSE << >>]

\* ------------------------------------------------- the chat handler's tests
\* server.ts:74, 90, 106: the request is for a session that is created or still valid
Live(s) ==
  /\ s \notin expiredSessions
  /\ sessions[s] # NoObj => now - heap[sessions[s]].lastActive <= SESSION_EXPIRATION
\* server.ts:106: the stored session has expired
IdleExpiredAtLimit(s) ==
  /\ s \notin expiredSessions
  /\ sessions[s] # NoObj
  /\ now - heap[sessions[s]].lastActive >= SESSION_EXPIRATION
IdleExpired(s) ==
  /\ s \notin expiredSessions
  /\ sessions[s] # NoObj
  /\ now - heap[sessions[s]].lastActive > SESSION_EXPIRATION
\* server.ts:87-99: the object the handler works on, and what it holds after lines 90-125
ObjFor(s) == IF sessions[s] = NoObj THEN NewObj(s) ELSE sessions[s]
Resolved(s) ==
  IF sessions[s] = NoObj THEN NewSession(now)
  ELSE [heap[sessions[s]] EXCEPT !.lastActive = now]

\* server.ts:128
OtpGate(sess) == sess.conversationState = "AWAITING_OTP" /\ ~sess.otpVerified
\* server.ts:132-137
OtpMatchesNoAge(sess, message, t) ==
  /\ sess.otp # << >>
  /\ sess.otpTimestamp # 0
  /\ Parsed[message].trimmed = sess.otp
OtpMatchesStrictAge(sess, message, t) ==
  /\ sess.otp # << >>
  /\ sess.otpTimestamp # 0
  /\ t - sess.otpTimestamp < OTP_VALIDITY
  /\ Parsed[message].trimmed = sess.otp
OtpMatches(sess, message, t) ==
  /\ sess.otp # << >>
  /\ sess.otpTimestamp # 0
  /\ t - sess.otpTimestamp <= OTP_VALIDITY
  /\ Parsed[message].trimmed = sess.otp
\* server.ts:138-139
OtpVerify(sess) == [sess EXCEPT !.otpVerified = TRUE, !.conversationState = "ORDER_FOUND"]
\* server.ts:147-150
OtpRejectKeepsCode(sess) ==
  [sess EXCEPT !.otpVerified = FALSE, !.conversationState = "INITIAL"]
OtpRejectAllowsRetry(sess) == [sess EXCEPT !.otpVerified = FALSE]
OtpReject(sess) ==
  [sess EXCEPT !.otp = << >>, !.otpTimestamp = 0, !.otpVerified = FALSE,
               !.conversationState = "INITIAL"]
\* server.ts:167
SlotGateShut(sess) == FALSE
SlotGate(sess) ==
  sess.conversationState = "RESCHEDULE_OPTIONS" /\ Len(sess.rescheduleOptions) > 0
\* server.ts:168-169
SlotValid(sess, message) ==
  LET slotNumber == Parsed[message].slotNumber
  IN slotNumber # NaN /\ slotNumber >= 1 /\ slotNumber <= Len(sess.rescheduleOptions)
\* server.ts:170: session.rescheduleOptions[slotNumber - 1] (sequences count from 1)
SelectedFirstOption(sess, slotNumber) == sess.rescheduleOptions[1]
SelectedOption(sess, slotNumber) == sess.rescheduleOptions[slotNumber]
\* server.ts:166-221: the slot branch answers the message (it falls through only for
\* a valid slot of a session without an order)
SlotAnswers(sess, message) ==
  SlotGate(sess) /\ (SlotValid(sess, message) => sess.currentOrder # NullOrder)
\* server.ts:254
VerificationGateOpen(sess) == FALSE
VerificationGate(sess) == sess.currentOrder # NullOrder /\ ~sess.otpVerified

\* the request slot a handler that suspends takes
FreeSlots == {r \in Reqs : inflight[r].pc = "free"}
NewReq == CHOOSE r \in FreeSlots : \A q \in FreeSlots : r <= q

\* The handler ran to a reply without an await: the session object holds sess.
Answered(s, sess, rep) ==
  /\ sessions' = [sessions EXCEPT ![s] = ObjFor(s)]
  /\ heap' = [heap EXCEPT ![ObjFor(s)] = sess]
  /\ reply' = rep
  /\ idleSwept' = idleSwept \ {s}
  /\ UNCHANGED <<now, sweepDue, expiredSessions, conversationState, orders, inflight,
                 resetPc, rescheduleCount, expiredAt>>

\* The handler ran to an await: the session object holds sess, the handler waits as req.
Suspended(s, sess, req) ==
  /\ FreeSlots # {}
  /\ sessions' = [sessions EXCEPT ![s] = ObjFor(s)]
  /\ heap' = [heap EXCEPT ![ObjFor(s)] = sess]
  /\ inflight' = [inflight EXCEPT ![NewReq] = req]
  /\ idleSwept' = idleSwept \ {s}
  /\ reply' = NoReply
  /\ UNCHANGED <<now, sweepDue, expiredSessions, conversationState, orders, resetPc,
                 rescheduleCount, expiredAt>>

\* ------------------------------------- app.post('/api/chat'), to its first await
\* server.ts:67-71: the body has no sessionId (undefined, null or "" fail the test
\* !sessionId alike); the handler returns before it reads anything
ChatNoSessionIdServed(message) == Answered("s1", Resolved("s1"), BadRequestReply)
ChatNoSessionId(message) ==
  /\ reply' = BadRequestReply
  /\ UNCHANGED <<now, sweepDue, sessions, heap, expiredSessions, conversationState,
                 orders, inflight, resetPc, rescheduleCount, expiredAt, idleSwept>>

\* server.ts:74-84
ChatKnownExpiredForgets(s, message) ==
  /\ s \in expiredSessions
  /\ reply' = ExpiredReply(s)
  /\ expiredSessions' = expiredSessions \ {s}
  /\ idleSwept' = idleSwept \ {s}
  /\ UNCHANGED <<now, sweepDue, sessions, heap, conversationState,
                 orders, inflight, resetPc, rescheduleCount, expiredAt>>
ChatKnownExpiredRecreates(s, message) ==
  /\ s \in expiredSessions
  /\ Answered(s, NewSession(now), ExpiredReply(s))
ChatKnownExpired(s, message) ==
  /\ s \in expiredSessions
  /\ reply' = ExpiredReply(s)
  /\ idleSwept' = idleSwept \ {s}
  /\ UNCHANGED <<now, sweepDue, sessions, heap, expiredSessions, conversationState,
                 orders, inflight, resetPc, rescheduleCount, expiredAt>>

\* server.ts:106-119
ChatIdleExpiredMarksSession(s, message) ==
  /\ IdleExpired(s)
  /\ Answered(s, [Resolved(s) EXCEPT !.conversationState = "SESSION_EXPIRED"],
              ExpiredReply(s))
ChatIdleExpired(s, message) ==
  /\ IdleExpired(s)
  /\ sessions' = [sessions EXCEPT ![s] = NoObj]
  /\ heap' = Collect(heap, sessions', inflight)
  /\ expiredSessions' = expiredSessions \cup {s}
  /\ expiredAt' = [expiredAt EXCEPT ![s] = now]
  /\ reply' = ExpiredReply(s)
  /\ idleSwept' = idleSwept \ {s}
  /\ UNCHANGED <<now, sweepDue, conversationState, orders, inflight, resetPc,
                 rescheduleCount>>

\* server.ts:128-144
ChatOtpVerified(s, message) ==
  /\ Live(s)
  /\ OtpGate(Resolved(s))
  /\ Parsed[message].isOtp
  /\ OtpMatches(Resolved(s), message, now)
  /\ Answered(s, OtpVerify(Resolved(s)), OtpSuccessReply(s))

\* server.ts:128-131, 145-156
ChatOtpRejected(s, message) ==
  /\ Live(s)
  /\ OtpGate(Resolved(s))
  /\ Parsed[message].isOtp
  /\ ~OtpMatches(Resolved(s), message, now)
  /\ Answered(s, OtpReject(Resolved(s)),
              OtpFailureReply(s, Parsed[message].trimmed = Resolved(s).otp))

\* server.ts:128-130, 157-163
ChatOtpReprompt(s, message) ==
  /\ Live(s)
  /\ OtpGate(Resolved(s))
  /\ ~Parsed[message].isOtp
  /\ Answered(s, Resolved(s), OtpPromptReply(s))

\* server.ts:167-174: a valid slot, up to await db.rescheduleOrder
ChatSlotSelected(s, message) ==
  /\ Live(s)
  /\ ~OtpGate(Resolved(s))
  /\ SlotGate(Resolved(s))
  /\ SlotValid(Resolved(s), message)
  /\ Resolved(s).currentOrder # NullOrder
  /\ Suspended(s, Resolved(s),
               [FreeReq EXCEPT !.pc = "rescheduleOrder", !.sid = s, !.obj = ObjFor(s),
                               !.awb = Resolved(s).currentOrder.awb,
                               !.option =
                                 SelectedOption(Resolved(s),
                                                Parsed[message].slotNumber)])

\* server.ts:167-169, 211-220
ChatSlotOutOfRange(s, message) ==
  /\ Live(s)
  /\ ~OtpGate(Resolved(s))
  /\ SlotGate(Resolved(s))
  /\ ~SlotValid(Resolved(s), message)
  /\ Answered(s, Resolved(s), SlotRangeReply(s, Resolved(s)))

\* server.ts:224-227: a tracking id in the message, up to await db.getOrderStatus
ChatFetchOrder(s, message) ==
  /\ Live(s)
  /\ ~OtpGate(Resolved(s))
  /\ ~SlotAnswers(Resolved(s), message)
  /\ Parsed[message].awb # << >>
  /\ Suspended(s, Resolved(s),
               [FreeReq EXCEPT !.pc = "getOrderStatus", !.sid = s, !.obj = ObjFor(s),
                               !.awb = Parsed[message].awb])

\* server.ts:224-225, 254-260
ChatGateBlocked(s, message) ==
  /\ Live(s)
  /\ ~OtpGate(Resolved(s))
  /\ ~SlotAnswers(Resolved(s), message)
  /\ Parsed[message].awb = << >>
  /\ VerificationGate(Resolved(s))
  /\ Answered(s, Resolved(s), GateReply(s))

\* server.ts:263-269 and AIAssistant.handleUserMessage up to await handleLlmRequest:
\* the state handed over is aiAssistant.conversationState
ChatDispatch(s, message) ==
  /\ Live(s)
  /\ ~OtpGate(Resolved(s))
  /\ ~SlotAnswers(Resolved(s), message)
  /\ Parsed[message].awb = << >>
  /\ ~VerificationGate(Resolved(s))
  /\ Suspended(s, Resolved(s),
               [FreeReq EXCEPT !.pc = "handleUserMessage", !.sid = s, !.obj = ObjFor(s),
                               !.order = Resolved(s).currentOrder,
                               !.state = conversationState])

\* -------------------------------------- app.post('/api/chat'), after an await
\* The handler in slot r replies; the object it held is collected when no one else
\* refers to it.
Finished(r, h, rep) ==
  /\ inflight' = [inflight EXCEPT ![r] = FreeReq]
  /\ heap' = Collect(h, sessions, inflight')
  /\ reply' = rep

\* database.ts:49-60 and server.ts:174-178: the update matched the order; the
\* handler goes on to await db.getOrderStatus
DbRescheduleApplied(r) ==
  /\ inflight[r].pc = "rescheduleOrder"
  /\ RescheduleMatches(orders, inflight[r].awb)
  /\ orders' = rescheduleOrder(orders, inflight[r].awb, inflight[r].option.date)
  /\ rescheduleCount' =
       [rescheduleCount EXCEPT ![inflight[r].awb] = IF @ < MaxCount THEN @ + 1 ELSE @]
  /\ IF heap[inflight[r].obj].currentOrder # NullOrder
       THEN /\ inflight' =
                 [inflight EXCEPT ![r].pc = "refresh",
                                  ![r].awb = heap[inflight[r].obj].currentOrder.awb]
            /\ reply' = NoReply
            /\ heap' = heap
       ELSE Finished(r, heap, InternalErrorReply(inflight[r].sid, heap[inflight[r].obj]))
  /\ UNCHANGED <<now, sweepDue, sessions, expiredSessions, conversationState,
                 resetPc, expiredAt, idleSwept>>

\* server.ts:200-208: the session after a failed update (the branch assigns nothing)
RescheduleFailedDropsOptions(sess) == [sess EXCEPT !.rescheduleOptions = << >>]
RescheduleFailed(sess) == sess
\* database.ts:60-64 and server.ts:200-208: the update matched nothing, or threw
DbRescheduleFailed(r) ==
  /\ inflight[r].pc = "rescheduleOrder"
  /\ Finished(r, [heap EXCEPT ![inflight[r].obj] = RescheduleFailed(@)],
              RescheduleFailedReply(inflight[r].sid,
                                    RescheduleFailed(heap[inflight[r].obj])))
  /\ UNCHANGED <<now, sweepDue, sessions, expiredSessions, conversationState, orders,
                 resetPc, rescheduleCount, expiredAt, idleSwept>>

\* database.ts:43-45 and server.ts:303-308: findOne throws, the handler's catch replies
DbFindOneFailed(r) ==
  /\ inflight[r].pc \in {"refresh", "getOrderStatus"}
  /\ Finished(r, heap, InternalErrorReply(inflight[r].sid, heap[inflight[r].obj]))
  /\ UNCHANGED <<now, sweepDue, sessions, expiredSessions, conversationState, orders,
                 resetPc, rescheduleCount, expiredAt, idleSwept>>

\* server.ts:178-199
Refreshed(sess, order) ==
  [sess EXCEPT !.currentOrder = order, !.rescheduleOptions = << >>,
               !.conversationState = "ORDER_FOUND"]
\* server.ts:178-199: findOne answers the refresh, the handler replies
AfterRefresh(r) ==
  LET order == getOrderStatus(orders, inflight[r].awb)
  IN /\ inflight[r].pc = "refresh"
     /\ Finished(r,
                 [heap EXCEPT ![inflight[r].obj] = Refreshed(@, order)],
                 RescheduledReply(inflight[r].sid, Refreshed(heap[inflight[r].obj], order),
                                  inflight[r].option))
     /\ UNCHANGED <<now, sweepDue, sessions, expiredSessions, conversationState, orders,
                    resetPc, rescheduleCount, expiredAt, idleSwept>>

\* server.ts:229-236
OtpIssued(sess, order, otp, t) ==
  [sess EXCEPT !.currentOrder = order, !.otp = otp, !.otpTimestamp = t,
               !.conversationState = "AWAITING_OTP"]

\* seedData.ts:28-61 sendWhatsAppUpdate: how the call ends for the caller, given what
\* happened to the message (no Twilio credentials, sent, or client.messages.create
\* threw, which the function catches)
NotifierOutcomes == {"unconfigured", "sent", "failed"}
sendWhatsAppUpdateRethrows(outcome) == IF outcome = "failed" THEN "thrown" ELSE "returned"
sendWhatsAppUpdate(outcome) == "returned"

\* server.ts:238-240: what became of the code: the order has no customerPhone and
\* sendWhatsAppUpdate is not called, or it is called and ends with outcome
NotifierCall(order, outcome) == IF order.customerPhone # "" THEN outcome ELSE "not_called"

\* server.ts:227-245: findOne answers with an order and the session is not verified;
\* the handler stores an OTP, sends it when the order has a phone number
\* (sendWhatsAppUpdate touches no state of the server) and replies; had the call
\* thrown, the catch of server.ts:303 would reply
AfterFetchIssueOtp(r, n, outcome) ==
  LET order == getOrderStatus(orders, inflight[r].awb)
      sess == OtpIssued(heap[inflight[r].obj], order, NumToString(n), now)
      call == NotifierCall(order, outcome)
  IN /\ inflight[r].pc = "getOrderStatus"
     /\ order # NullOrder
     /\ ~heap[inflight[r].obj].otpVerified
     /\ Finished(r,
                 [heap EXCEPT ![inflight[r].obj] = sess],
                 IF call = "not_called" \/ sendWhatsAppUpdate(outcome) = "returned"
                   THEN OtpIssuedReply(inflight[r].sid, call)
                   ELSE InternalErrorReply(inflight[r].sid, sess))
     /\ UNCHANGED <<now, sweepDue, sessions, expiredSessions, conversationState, orders,
                    resetPc, rescheduleCount, expiredAt, idleSwept>>

\* server.ts:228-229, 247-250: the session object after the fetch, when no OTP is issued
FetchedKeepsCached(sess, order) ==
  IF order # NullOrder /\ sess.currentOrder = NullOrder
    THEN [sess EXCEPT !.currentOrder = order] ELSE sess
Fetched(sess, order) ==
  IF order # NullOrder THEN [sess EXCEPT !.currentOrder = order] ELSE sess

\* server.ts:227, 247-260: findOne answers null, and the session holds an unverified order
AfterFetchGateBlocked(r) ==
  /\ inflight[r].pc = "getOrderStatus"
  /\ getOrderStatus(orders, inflight[r].awb) = NullOrder
  /\ VerificationGate(heap[inflight[r].obj])
  /\ Finished(r, heap, GateReply(inflight[r].sid))
  /\ UNCHANGED <<now, sweepDue, sessions, expiredSessions, conversationState, orders,
                 resetPc, rescheduleCount, expiredAt, idleSwept>>

\* server.ts:227-231, 247-269: findOne answers and the handler goes on to
\* handleUserMessage
AfterFetchDispatch(r) ==
  LET order == getOrderStatus(orders, inflight[r].awb)
      sess == Fetched(heap[inflight[r].obj], order)
  IN /\ inflight[r].pc = "getOrderStatus"
     /\ order # NullOrder => heap[inflight[r].obj].otpVerified
     /\ ~VerificationGate(sess)
     /\ heap' = [heap EXCEPT ![inflight[r].obj] = sess]
     /\ inflight' =
          [inflight EXCEPT ![r].pc = "handleUserMessage",
                           ![r].order = sess.currentOrder,
                           ![r].state = conversationState]
     /\ reply' = NoReply
     /\ UNCHANGED <<now, sweepDue, sessions, expiredSessions, conversationState, orders,
                    resetPc, rescheduleCount, expiredAt, idleSwept>>

\* part_000:32-39 and server.ts:272-281: the state and the options the session
\* has after the handler got llm back
DispatchOptions(sess, llm) ==
  IF llm.requiresReschedule /\ sess.currentOrder # NullOrder
    THEN generateRescheduleOptions(sess.currentOrder.estimatedDelivery)
    ELSE << >>
Dispatched(sess, llm) ==
  [sess EXCEPT !.conversationState = llm.nextState,
               !.rescheduleOptions =
                 IF llm.requiresReschedule /\ sess.currentOrder # NullOrder
                   THEN DispatchOptions(sess, llm) ELSE @]

\* handleLlmRequest returned: AIAssistant.handleUserMessage stores nextState in
\* aiAssistant.conversationState, the chat handler copies it to the session and replies
AfterLlm(r, outcome) ==
  LET llm == handleLlmRequest(outcome, inflight[r].state, inflight[r].order)
      sess == Dispatched(heap[inflight[r].obj], llm)
  IN /\ inflight[r].pc = "handleUserMessage"
     /\ conversationState' = llm.nextState
     /\ Finished(r, [heap EXCEPT ![inflight[r].obj] = sess],
                 DispatchReply(inflight[r].sid, sess, llm, DispatchOptions(sess, llm)))
     /\ UNCHANGED <<now, sweepDue, sessions, expiredSessions, orders, resetPc,
                    rescheduleCount, expiredAt, idleSwept>>

\* ------------------------------------------------------ the other handlers
\* server.ts:38-44: the sessions the first loop of cleanupExpiredSessions deletes
SweepStaleNone == {}
SweepStale ==
  {s \in SessionIds :
     sessions[s] # NoObj /\ now - heap[sessions[s]].lastActive > SESSION_EXPIRATION}
\* server.ts:49-50: the test of the second loop, on the Map the first loop left
SweepDrops(map, s) ==
  \/ map[s] = NoObj
  \/ (heap[map[s]].lastActive # 0 /\ now - heap[map[s]].lastActive > EXPIRED_RETENTION)

\* server.ts:36-54, run by setInterval (server.ts:57)
cleanupExpiredSessions ==
  LET map == [s \in SessionIds |-> IF s \in SweepStale THEN NoObj ELSE sessions[s]]
      added == expiredSessions \cup SweepStale
  IN /\ sweepDue
     /\ sweepDue' = FALSE
     /\ sessions' = map
     /\ heap' = Collect(heap, map, inflight)
     /\ expiredSessions' = {s \in added : ~SweepDrops(map, s)}
     /\ expiredAt' =
          [s \in SessionIds |->
             IF s \notin expiredSessions' THEN 0
             ELSE IF s \in SweepStale THEN now ELSE expiredAt[s]]
     /\ idleSwept' = idleSwept \cup SweepStale
     /\ reply' = NoReply
     /\ UNCHANGED <<now, conversationState, orders, inflight, resetPc, rescheduleCount>>

\* A minute passes; the interval timer (server.ts:57, every 60 * 1000 ms) fires, and
\* its callback runs before it fires again.
Tick ==
  /\ now < MaxTime
  /\ ~sweepDue
  /\ now' = now + 1
  /\ sweepDue' = TRUE
  /\ reply' = NoReply
  /\ UNCHANGED <<sessions, heap, expiredSessions, conversationState, orders, inflight,
                 resetPc, rescheduleCount, expiredAt, idleSwept>>

\* server.ts:328-332: app.post('/api/reset-session/:sessionId') up to
\* await db.resetAllOrdersToSeed()
ResetSessionKeepsExpired(s) ==
  /\ resetPc = "idle"
  /\ sessions' = [sessions EXCEPT ![s] = NoObj]
  /\ heap' = Collect(heap, sessions', inflight)
  /\ idleSwept' = idleSwept \ {s}
  /\ resetPc' = "deleteMany"
  /\ reply' = NoReply
  /\ UNCHANGED <<now, sweepDue, expiredSessions, conversationState, orders, inflight,
                 rescheduleCount, expiredAt>>
ResetSession(s) ==
  /\ resetPc = "idle"
  /\ sessions' = [sessions EXCEPT ![s] = NoObj]
  /\ heap' = Collect(heap, sessions', inflight)
  /\ expiredSessions' = expiredSessions \ {s}
  /\ idleSwept' = idleSwept \ {s}
  /\ resetPc' = "deleteMany"
  /\ expiredAt' = [expiredAt EXCEPT ![s] = 0]
  /\ reply' = NoReply
  /\ UNCHANGED <<now, sweepDue, conversationState, orders, inflight, rescheduleCount>>

\* database.ts:76: orders.deleteMany({})
DbDeleteMany ==
  /\ resetPc = "deleteMany"
  /\ orders' = [a \in Awbs |-> NullOrder]
  /\ resetPc' = "insertMany"
  /\ reply' = NoReply
  /\ UNCHANGED <<now, sweepDue, sessions, heap, expiredSessions, conversationState,
                 inflight, rescheduleCount, expiredAt, idleSwept>>

\* database.ts:80-85 and server.ts:333: orders.insertMany(sampleOrders), then the reply
DbInsertMany ==
  /\ resetPc = "insertMany"
  /\ orders' = sampleOrders
  /\ rescheduleCount' = [a \in Awbs |-> 0]
  /\ resetPc' = "idle"
  /\ reply' = Reply("", 200, "Session and all orders reset successfully", "", FALSE)
  /\ UNCHANGED <<now, sweepDue, sessions, heap, expiredSessions, conversationState,
                 inflight, expiredAt, idleSwept>>

\* server.ts:382-402: app.post('/api/test-session-expiration/:sessionId')
TestSessionExpiration(s) ==
  /\ IF sessions[s] = NoObj
       THEN /\ reply' = [Reply(s, 200, "Session not found.", "", FALSE)
                           EXCEPT !.sessionExpired = TRUE]
            /\ heap' = heap
       ELSE /\ reply' = [Reply(s, 200, "Session manually expired for testing.", "",
                               heap[sessions[s]].otpVerified)
                           EXCEPT !.sessionExpired = TRUE]
            /\ heap' = [heap EXCEPT ![sessions[s]].lastActive =
                          now - (SESSION_EXPIRATION + TEST_EXPIRE_EXTRA)]
  /\ UNCHANGED <<now, sweepDue, sessions, expiredSessions, conversationState, orders,
                 inflight, resetPc, rescheduleCount, expiredAt, idleSwept>>

\* ------------------------------------------------------- specification
Init ==
  /\ now = StartTime
  /\ sweepDue = FALSE
  /\ sessions = [s \in SessionIds |-> NoObj]
  /\ heap = [o \in ObjIds |-> FreeObj]
  /\ expiredSessions = {}
  /\ conversationState = "INITIAL"
  /\ orders = sampleOrders
  /\ inflight = [r \in Reqs |-> FreeReq]
  /\ resetPc = "idle"
  /\ reply = NoReply
  /\ rescheduleCount = [a \in Awbs |-> 0]
  /\ expiredAt = [s \in SessionIds |-> 0]
  /\ idleSwept = {}

\* the handlers suspended at an await
Busy == {r \in Reqs : inflight[r].pc # "free"}
\* at most one chat handler is suspended at a time (a handler that replies without
\* an await still runs while another one is suspended)
OneSuspended == Cardinality(Busy) <= 1

\* ---------------------------------------------------------------------------
\* The conversation: two clients, each with the whole dialogue (tracking id, right
\* and wrong code, free text, a slot number), the intents that ask about the order,
\* and session resets. The clock stands still, so no session expires. One handler
\* at a time is suspended.
ConversationMessages == {MsgAwbTransit, MsgOtpA, MsgOtpB, MsgSlot2, MsgText}
ConversationOutcomes == {"no_tool_call", "status", "details", "reschedule"}

ConversationChat(s, message) ==
  \/ ChatOtpVerified(s, message)
  \/ ChatOtpRejected(s, message)
  \/ ChatOtpReprompt(s, message)
  \/ ChatSlotSelected(s, message)
  \/ ChatSlotOutOfRange(s, message)
  \/ ChatFetchOrder(s, message)
  \/ ChatGateBlocked(s, message)
  \/ ChatDispatch(s, message)

ConversationResume(r) ==
  \/ DbRescheduleApplied(r)
  \/ DbRescheduleFailed(r)
  \/ DbFindOneFailed(r)
  \/ AfterRefresh(r)
  \/ \E n \in OtpNumbers, outcome \in NotifierOutcomes : AfterFetchIssueOtp(r, n, outcome)
  \/ AfterFetchGateBlocked(r)
  \/ AfterFetchDispatch(r)
  \/ \E outcome \in ConversationOutcomes : AfterLlm(r, outcome)

NextConversation ==
  \/ \E s \in SessionIds, message \in ConversationMessages :
       ConversationChat(s, message) /\ OneSuspended'
  \/ \E r \in Reqs : ConversationResume(r)
  \/ \E s \in SessionIds : ResetSession(s)
  \/ DbDeleteMany
  \/ DbInsertMany

SpecConversation == Init /\ [][NextConversation]_vars

\* ---------------------------------------------------------------------------
\* Expiry: the clock runs and the interval timer sweeps. The first client goes
\* through OTP verification, the second one only chats; the intent is a greeting.
\* One handler at a time is suspended.
ExpiryMessages(s) ==
  IF s = "s1" THEN {MsgAwbTransit, MsgOtpA, MsgOtpB, MsgSlot2, MsgText} ELSE {MsgText}
ExpiryOutcomes == {"greeting"}

ExpiryChat(s, message) ==
  \/ ChatKnownExpired(s, message)
  \/ ChatIdleExpired(s, message)
  \/ ChatOtpVerified(s, message)
  \/ ChatOtpRejected(s, message)
  \/ ChatOtpReprompt(s, message)
  \/ ChatFetchOrder(s, message)
  \/ ChatGateBlocked(s, message)
  \/ ChatDispatch(s, message)

ExpiryResume(r) ==
  \/ DbFindOneFailed(r)
  \/ \E n \in OtpNumbers, outcome \in NotifierOutcomes : AfterFetchIssueOtp(r, n, outcome)
  \/ AfterFetchGateBlocked(r)
  \/ AfterFetchDispatch(r)
  \/ \E outcome \in ExpiryOutcomes : AfterLlm(r, outcome)

NextExpiry ==
  \/ \E s \in SessionIds : \E message \in ExpiryMessages(s) :
       ExpiryChat(s, message) /\ OneSuspended'
  \/ \E r \in Reqs : ExpiryResume(r)
  \/ cleanupExpiredSessions
  \/ Tick
  \/ \E s \in SessionIds : ResetSession(s)
  \/ DbDeleteMany
  \/ DbInsertMany
  \/ \E s \in SessionIds : TestSessionExpiration(s)

SpecExpiry == Init /\ [][NextExpiry]_vars

\* ---------------------------------------------------------------------------
\* Two orders: two clients that name the two seeded orders, enter the code and
\* ask for status or details; session resets. The clock stands still. One handler
\* at a time is suspended.
OrdersMessages == {MsgAwbTransit, MsgAwbDelivered, MsgOtpA, MsgText}
OrdersOutcomes == {"status", "details"}

OrdersChat(s, message) ==
  \/ ChatOtpVerified(s, message)
  \/ ChatOtpReprompt(s, message)
  \/ ChatFetchOrder(s, message)
  \/ ChatDispatch(s, message)

OrdersResume(r) ==
  \/ DbFindOneFailed(r)
  \/ \E n \in OtpNumbers, outcome \in NotifierOutcomes : AfterFetchIssueOtp(r, n, outcome)
  \/ AfterFetchDispatch(r)
  \/ \E outcome \in OrdersOutcomes : AfterLlm(r, outcome)

NextOrders ==
  \/ \E s \in SessionIds, message \in OrdersMessages :
       OrdersChat(s, message) /\ OneSuspended'
  \/ \E r \in Reqs : OrdersResume(r)
  \/ \E s \in SessionIds : ResetSession(s)

SpecOrders == Init /\ [][NextOrders]_vars

\* ---------------------------------------------------------------------------
\* Rescheduling: two clients that look up the In Transit order, enter the code, ask
\* to reschedule and answer the offer with 0..4 or with text; the update and the
\* refresh read may fail; session resets and the reseeding of the orders. The clock
\* stands still. One handler at a time is suspended.
RescheduleMessages ==
  {MsgAwbTransit, MsgOtpA, MsgSlot0, MsgSlot1, MsgSlot2, MsgSlot3, MsgSlot4, MsgText}
RescheduleOutcomes == {"reschedule"}

RescheduleChat(s, message) ==
  \/ ChatOtpVerified(s, message)
  \/ ChatOtpReprompt(s, message)
  \/ ChatSlotSelected(s, message)
  \/ ChatSlotOutOfRange(s, message)
  \/ ChatFetchOrder(s, message)
  \/ ChatDispatch(s, message)

RescheduleResume(r) ==
  \/ DbRescheduleApplied(r)
  \/ DbRescheduleFailed(r)
  \/ DbFindOneFailed(r)
  \/ AfterRefresh(r)
  \/ \E n \in OtpNumbers, outcome \in NotifierOutcomes : AfterFetchIssueOtp(r, n, outcome)
  \/ AfterFetchDispatch(r)
  \/ \E outcome \in RescheduleOutcomes : AfterLlm(r, outcome)

NextReschedule ==
  \/ \E s \in SessionIds, message \in RescheduleMessages :
       RescheduleChat(s, message) /\ OneSuspended'
  \/ \E r \in Reqs : RescheduleResume(r)
  \/ \E s \in SessionIds : ResetSession(s)
  \/ DbDeleteMany
  \/ DbInsertMany

SpecReschedule == Init /\ [][NextReschedule]_vars

\* ---------------------------------------------------------------------------
\* Overlapping messages: one client whose messages arrive while earlier ones are
\* still being processed, so that up to MaxInFlight handlers of the same session are
\* suspended at their awaits. The store answers every call; the clock stands still.
ConcurrentSessions == {"s1"}
ConcurrentMessages == {MsgAwbTransit, MsgOtpA, MsgSlot2, MsgText}
ConcurrentOutcomes == {"status", "reschedule"}

ConcurrentChat(s, message) ==
  \/ ChatOtpVerified(s, message)
  \/ ChatOtpReprompt(s, message)
  \/ ChatSlotSelected(s, message)
  \/ ChatSlotOutOfRange(s, message)
  \/ ChatFetchOrder(s, message)
  \/ ChatDispatch(s, message)

ConcurrentResume(r) ==
  \/ DbRescheduleApplied(r)
  \/ AfterRefresh(r)
  \/ \E n \in OtpNumbers, outcome \in NotifierOutcomes : AfterFetchIssueOtp(r, n, outcome)
  \/ AfterFetchDispatch(r)
  \/ \E outcome \in ConcurrentOutcomes : AfterLlm(r, outcome)

NextConcurrent ==
  \/ \E s \in ConcurrentSessions, message \in ConcurrentMessages : ConcurrentChat(s, message)
  \/ \E r \in Reqs : ConcurrentResume(r)

SpecConcurrent == Init /\ [][NextConcurrent]_vars

\* The same client when each message is sent after the reply to the one before:
\* a handler starts only when none is suspended.
NextSerial ==
  \/ \E s \in ConcurrentSessions, message \in ConcurrentMessages :
       Busy = {} /\ ConcurrentChat(s, message)
  \/ \E r \in Reqs : ConcurrentResume(r)

SpecSerial == Init /\ [][NextSerial]_vars

\* ---------------------------------------------------------------------------
\* Dialogue: two clients that look up the In Transit order, enter the code and chat;
\* the model call ends in every way handleLlmRequest distinguishes. Handlers of both
\* clients may be suspended at the same time. The store answers every call; the
\* clock stands still.
DialogueMessages == {MsgAwbTransit, MsgOtpA, MsgText}
DialogueOutcomes ==
  {"no_tool_call", "status", "greeting", "farewell", "other_tool", "error"}

DialogueChat(s, message) ==
  \/ ChatOtpVerified(s, message)
  \/ ChatOtpReprompt(s, message)
  \/ ChatFetchOrder(s, message)
  \/ ChatDispatch(s, message)

DialogueResume(r) ==
  \/ \E n \in OtpNumbers, outcome \in NotifierOutcomes : AfterFetchIssueOtp(r, n, outcome)
  \/ AfterFetchDispatch(r)
  \/ \E outcome \in DialogueOutcomes : AfterLlm(r, outcome)

NextDialogue ==
  \/ \E s \in SessionIds, message \in DialogueMessages : DialogueChat(s, message)
  \/ \E r \in Reqs : DialogueResume(r)

SpecDialogue == Init /\ [][NextDialogue]_vars

\* ---------------------------------------------------------------------------
\* Requests of one client with a clock: its messages, requests that carry no
\* sessionId, the sweep, and session resets. The intent is a greeting. One handler at
\* a time is suspended.
RequestsSessions == {"s1"}

NextRequests ==
  \/ \E s \in RequestsSessions : \E message \in ExpiryMessages(s) :
       ExpiryChat(s, message) /\ OneSuspended'
  \/ \E message \in ExpiryMessages("s1") : ChatNoSessionId(message)
  \/ \E r \in Reqs : ExpiryResume(r)
  \/ cleanupExpiredSessions
  \/ Tick
  \/ \E s \in RequestsSessions : ResetSession(s)
  \/ DbDeleteMany
  \/ DbInsertMany

SpecRequests == Init /\ [][NextRequests]_vars

\* ---------------------------------------------------------------------------
\* Reschedule offers for any delivery date: the In Transit order was seeded with an
\* estimatedDelivery of some day and hour (sampleOrders.ts:17 takes it from the
\* clock at start-up); one client looks it up, enters the code and asks to
\* reschedule. The store answers every call; the clock stands still.
BaseDates == {[day |-> d, hour |-> h] : d \in 0 .. MaxBaseDay, h \in {0, 10, 23}}
OffersSessions == {"s1"}
OffersMessages == {MsgAwbTransit, MsgOtpA, MsgText}
OffersOutcomes == {"reschedule"}

InitOffers ==
  /\ now = StartTime
  /\ sweepDue = FALSE
  /\ sessions = [s \in SessionIds |-> NoObj]
  /\ heap = [o \in ObjIds |-> FreeObj]
  /\ expiredSessions = {}
  /\ conversationState = "INITIAL"
  /\ \E baseDate \in BaseDates :
       orders = [sampleOrders EXCEPT ![AwbTransit].estimatedDelivery = baseDate]
  /\ inflight = [r \in Reqs |-> FreeReq]
  /\ resetPc = "idle"
  /\ reply = NoReply
  /\ rescheduleCount = [a \in Awbs |-> 0]
  /\ expiredAt = [s \in SessionIds |-> 0]
  /\ idleSwept = {}

OffersChat(s, message) ==
  \/ ChatOtpVerified(s, message)
  \/ ChatOtpReprompt(s, message)
  \/ ChatSlotOutOfRange(s, message)
  \/ ChatFetchOrder(s, message)
  \/ ChatDispatch(s, message)

OffersResume(r) ==
  \/ \E n \in OtpNumbers, outcome \in NotifierOutcomes : AfterFetchIssueOtp(r, n, outcome)
  \/ AfterFetchDispatch(r)
  \/ \E outcome \in OffersOutcomes : AfterLlm(r, outcome)

NextOffers ==
  \/ \E s \in OffersSessions, message \in OffersMessages :
       OffersChat(s, message) /\ OneSuspended'
  \/ \E r \in Reqs : OffersResume(r)

SpecOffers == InitOffers /\ [][NextOffers]_vars

\* ---------------------------------------------------------------------------
\* Every stored state: the first client goes through the whole dialogue (tracking id,
\* code, free text, a slot number) with the intents that lead to each state, the
\* second one only chats; the clock runs and the interval timer sweeps. The store
\* answers every call. One handler at a time is suspended.
StatesMessages(s) ==
  IF s = "s1" THEN {MsgAwbTransit, MsgOtpA, MsgSlot2, MsgText} ELSE {MsgText}
StatesOutcomes == {"no_tool_call", "status", "reschedule", "farewell"}

StatesChat(s, message) ==
  \/ ChatKnownExpired(s, message)
  \/ ChatIdleExpired(s, message)
  \/ ChatOtpVerified(s, message)
  \/ ChatOtpRejected(s, message)
  \/ ChatOtpReprompt(s, message)
  \/ ChatSlotSelected(s, message)
  \/ ChatSlotOutOfRange(s, message)
  \/ ChatFetchOrder(s, message)
  \/ ChatGateBlocked(s, message)
  \/ ChatDispatch(s, message)

StatesResume(r) ==
  \/ DbRescheduleApplied(r)
  \/ AfterRefresh(r)
  \/ \E n \in OtpNumbers, outcome \in NotifierOutcomes : AfterFetchIssueOtp(r, n, outcome)
  \/ AfterFetchDispatch(r)
  \/ \E outcome \in StatesOutcomes : AfterLlm(r, outcome)

NextStates ==
  \/ \E s \in SessionIds : \E message \in StatesMessages(s) :
       StatesChat(s, message) /\ OneSuspended'
  \/ \E r \in Reqs : StatesResume(r)
  \/ cleanupExpiredSessions
  \/ Tick

SpecStates == Init /\ [][NextStates]_vars

\* ---------------------------------------------------------------------------
\* Codes: one client whose messages may overlap, so that two reads of the order can
\* be pending and the second code issued replaces the first; the codes issued are
\* two different numbers, and the client submits either. The clock runs, so a code
\* can be late, and the interval timer sweeps. The store answers every call.
OtpCodes == {111111, 222222}
CodesSessions == {"s1"}
CodesMessages == {MsgAwbTransit, MsgOtpA, MsgOtpB, MsgText}
CodesOutcomes == {"greeting"}

CodesChat(s, message) ==
  \/ ChatKnownExpired(s, message)
  \/ ChatIdleExpired(s, message)
  \/ ChatOtpVerified(s, message)
  \/ ChatOtpRejected(s, message)
  \/ ChatOtpReprompt(s, message)
  \/ ChatFetchOrder(s, message)
  \/ ChatGateBlocked(s, message)
  \/ ChatDispatch(s, message)

CodesResume(r) ==
  \/ \E n \in OtpCodes, outcome \in NotifierOutcomes : AfterFetchIssueOtp(r, n, outcome)
  \/ AfterFetchDispatch(r)
  \/ \E outcome \in CodesOutcomes : AfterLlm(r, outcome)

NextCodes ==
  \/ \E s \in CodesSessions, message \in CodesMessages : CodesChat(s, message)
  \/ \E r \in Reqs : CodesResume(r)
  \/ cleanupExpiredSessions
  \/ Tick

SpecCodes == Init /\ [][NextCodes]_vars

\* ---------------------------------------------------------------------------
\* Phone numbers: customerPhone is optional in an order document (database.ts:15);
\* the In Transit order of the collection has one or has none. Two clients look up
\* the two orders, enter the code and ask for status or details. The clock stands
\* still. One handler at a time is suspended.
PhoneNumbers == {"", sampleOrders[AwbTransit].customerPhone}

InitPhones ==
  /\ now = StartTime
  /\ sweepDue = FALSE
  /\ sessions = [s \in SessionIds |-> NoObj]
  /\ heap = [o \in ObjIds |-> FreeObj]
  /\ expiredSessions = {}
  /\ conversationState = "INITIAL"
  /\ \E phone \in PhoneNumbers :
       orders = [sampleOrders EXCEPT ![AwbTransit].customerPhone = phone]
  /\ inflight = [r \in Reqs |-> FreeReq]
  /\ resetPc = "idle"
  /\ reply = NoReply
  /\ rescheduleCount = [a \in Awbs |-> 0]
  /\ expiredAt = [s \in SessionIds |-> 0]
  /\ idleSwept = {}

SpecPhones == InitPhones /\ [][NextOrders]_vars

\* ---------------------------------------------------------------------------
\* api/index.ts, the serverless entry point: the same sessions Map, expiredSessions
\* Set, sweep, reset and test endpoints as server.ts (api/index.ts:21-57, 150-170,
\* 221-242), and its own chat handler.

\* api/index.ts:139-147: what the handler answers once the session is resolved: the
\* result of aiAssistant(message, sessionId, session), or the 500 of the catch when
\* the call throws
ApiReplyCodes == {200, 500}
ApiReply(sid, code) == Reply(sid, code, "", "", FALSE)

\* api/index.ts:96: initializeDB throws, the catch of lines 142-147 replies
ApiChatNoDatabase(s, message) ==
  /\ reply' = ApiReply(s, 500)
  /\ UNCHANGED <<now, sweepDue, sessions, heap, expiredSessions, conversationState,
                 orders, inflight, resetPc, rescheduleCount, expiredAt, idleSwept>>

\* api/index.ts:98-147, the handler after initializeDB: a known-expired id gets the
\* expiry reply (104-115); otherwise a session that is not stored is created, a
\* stored one gets lastActive = now whatever its age (117-136), and the assistant
\* is called. A missing sessionId (100-102) is ChatNoSessionId.
ApiChatResolved(s, message, code) ==
  IF s \in expiredSessions
    THEN /\ reply' = ExpiredReply(s)
         /\ idleSwept' = idleSwept \ {s}
         /\ UNCHANGED <<now, sweepDue, sessions, heap, expiredSessions, conversationState,
                        orders, inflight, resetPc, rescheduleCount, expiredAt>>
    ELSE Answered(s, Resolved(s), ApiReply(s, code))

\* api/index.ts:94-148, app.post('/api/chat')
ApiChat(s, message) ==
  \/ ApiChatNoDatabase(s, message)
  \/ \E code \in ApiReplyCodes : ApiChatResolved(s, message, code)

\* Two clients send messages, with or without a sessionId; the clock runs and the
\* interval timer sweeps.
ServerlessMessages == {MsgText, MsgAwbTransit}

NextServerless ==
  \/ \E s \in SessionIds, message \in ServerlessMessages : ApiChat(s, message)
  \/ \E message \in ServerlessMessages : ChatNoSessionId(message)
  \/ cleanupExpiredSessions
  \/ Tick

SpecServerless == Init /\ [][NextServerless]_vars

\* ---------------------------------------------------------------------------
\* The sweep as a timer: the requests of one client as in SpecRequests, with time
\* that passes and an interval timer whose callback runs (server.ts:57: setInterval
\* keeps firing every minute, and a due callback is run by the event loop).
SpecSweep ==
  /\ Init
  /\ [][NextRequests]_vars
  /\ WF_vars(Tick)
  /\ WF_vars(cleanupExpiredSessions)

\* ---------------------------------------------------------------------------
\* Properties. A property of a chat message is an action property over ExpiryChat
\* or ConversationChat, the whole chat handler up to its reply or its first await.

\* the stored session of id s
Stored(s) == heap[sessions[s]]
\* id s has a stored session that waits for its code
AwaitingCode(s) ==
  /\ sessions[s] # NoObj
  /\ Stored(s).conversationState = "AWAITING_OTP"
  /\ ~Stored(s).otpVerified
  /\ Stored(s).otp # << >>
\* a message for s passes the expiry checks that precede the OTP gate
PassesExpiryCheck(s) ==
  s \notin expiredSessions /\ now - Stored(s).lastActive <= SESSION_EXPIRATION
\* the stored session of s is older than the idle limit
Stale(s) == sessions[s] # NoObj /\ now - Stored(s).lastActive > SESSION_EXPIRATION
\* the text is six digits
SixDigits(message) ==
  LET t == Trim(message) IN Len(t) = 6 /\ \A i \in 1 .. 6 : t[i] \in Digits
\* the step is not the start of a session reset
NoReset == resetPc' = resetPc
\* the reply shows something of the order
ShowsOrder(rep) == rep.orderDetails # NoDetails \/ rep.showDetails \/ rep.status # ""

\* C1: a reply that carries order details, showDetails = true or the order's status
\* is sent only by a handler whose session object has otpVerified = true: no reply
\* for an unverified session shows anything of the order.
C1_DetailsOnlyAfterOtp == ShowsOrder(reply) => reply.otpVerified

\* C1, its case: a session that holds an order and is not verified asked for more
\* and was answered by the verification gate, with nothing of the order.
C1_UnverifiedAnswered ==
  \E s \in SessionIds :
    /\ reply = GateReply(s)
    /\ sessions[s] # NoObj
    /\ Stored(s).currentOrder # NullOrder
    /\ ~Stored(s).otpVerified

\* C2: for a stored session that waits for its code and whose message passes the
\* expiry check, the message that is the stored code, no more than OTP_VALIDITY
\* after issuance, leaves the session verified and in ORDER_FOUND.
C2_CodeInTimeVerifies ==
  [][\A s \in SessionIds : \A message \in ExpiryMessages(s) :
       ( /\ AwaitingCode(s)
         /\ PassesExpiryCheck(s)
         /\ message = Stored(s).otp
         /\ now - Stored(s).otpTimestamp <= OTP_VALIDITY
         /\ ExpiryChat(s, message) )
       => /\ sessions'[s] = sessions[s]
          /\ heap'[sessions[s]].otpVerified
          /\ heap'[sessions[s]].conversationState = "ORDER_FOUND"
          /\ reply' = OtpSuccessReply(s)]_vars

\* C2, its case: a code was accepted on the last minute of its validity.
C2_AcceptedAtLimit ==
  \E s \in SessionIds :
    /\ reply = OtpSuccessReply(s)
    /\ sessions[s] # NoObj
    /\ Stored(s).otpVerified
    /\ Stored(s).conversationState = "ORDER_FOUND"
    /\ now - Stored(s).otpTimestamp = OTP_VALIDITY

\* C3: for a stored session that waits for its code and whose message passes the
\* expiry check, a six-digit message that is not the stored code leaves the session
\* in INITIAL, unverified, with otp and otpTimestamp cleared, so that no message
\* matches afterwards.
C3_WrongCodeClears ==
  [][\A s \in SessionIds : \A message \in ExpiryMessages(s) :
       ( /\ AwaitingCode(s)
         /\ PassesExpiryCheck(s)
         /\ SixDigits(message)
         /\ Trim(message) # Stored(s).otp
         /\ ExpiryChat(s, message) )
       => /\ sessions'[s] = sessions[s]
          /\ heap'[sessions[s]].conversationState = "INITIAL"
          /\ ~heap'[sessions[s]].otpVerified
          /\ heap'[sessions[s]].otp = << >>
          /\ heap'[sessions[s]].otpTimestamp = 0
          /\ \A later \in Messages : ~OtpMatches(heap'[sessions[s]], later, now')]_vars

\* C3, its case: a wrong code was rejected and the stored code is gone.
C3_WrongCodeRejected ==
  \E s \in SessionIds :
    /\ reply = OtpFailureReply(s, FALSE)
    /\ sessions[s] # NoObj
    /\ Stored(s).conversationState = "INITIAL"
    /\ Stored(s).otp = << >>
    /\ Stored(s).currentOrder # NullOrder

\* C4 as stated: for a stored session that waits for its code, the stored code
\* submitted more than OTP_VALIDITY after issuance leaves the session in INITIAL
\* and unverified, whatever happened between issuance and submission.
C4_LateCodeToInitial ==
  [][\A s \in SessionIds : \A message \in ExpiryMessages(s) :
       ( /\ AwaitingCode(s)
         /\ message = Stored(s).otp
         /\ now - Stored(s).otpTimestamp > OTP_VALIDITY
         /\ ExpiryChat(s, message) )
       => /\ sessions'[s] = sessions[s]
          /\ heap'[sessions[s]].conversationState = "INITIAL"
          /\ ~heap'[sessions[s]].otpVerified]_vars

\* C4 amended: the same when the message passes the expiry check, that is when the
\* session was active within SESSION_EXPIRATION before the submission; the code is
\* cleared and the reply is the failure reply.
C4_LateCodeOfLiveSessionToInitial ==
  [][\A s \in SessionIds : \A message \in ExpiryMessages(s) :
       ( /\ AwaitingCode(s)
         /\ PassesExpiryCheck(s)
         /\ message = Stored(s).otp
         /\ now - Stored(s).otpTimestamp > OTP_VALIDITY
         /\ ExpiryChat(s, message) )
       => /\ sessions'[s] = sessions[s]
          /\ heap'[sessions[s]].conversationState = "INITIAL"
          /\ ~heap'[sessions[s]].otpVerified
          /\ heap'[sessions[s]].otp = << >>
          /\ reply' = OtpFailureReply(s, TRUE)]_vars

\* C4, its case: the stored code came too late to a live session and was rejected.
C4_LateCodeRejected ==
  \E s \in SessionIds :
    /\ reply = OtpFailureReply(s, TRUE)
    /\ sessions[s] # NoObj
    /\ Stored(s).conversationState = "INITIAL"
    /\ ~Stored(s).otpVerified

\* C5: for a stored session that waits for its code and whose message passes the
\* expiry check, a message that is not six digits only re-prompts: of the session
\* only lastActive changes, and the order store, the suspended handlers (no fetch,
\* no intent call) and the assistant's state are as before.
C5_OtherTextOnlyReprompts ==
  [][\A s \in SessionIds : \A message \in ExpiryMessages(s) :
       ( /\ AwaitingCode(s)
         /\ PassesExpiryCheck(s)
         /\ ~SixDigits(message)
         /\ ExpiryChat(s, message) )
       => /\ sessions' = sessions
          /\ heap' = [heap EXCEPT ![sessions[s]].lastActive = now]
          /\ orders' = orders
          /\ inflight' = inflight
          /\ conversationState' = conversationState
          /\ expiredSessions' = expiredSessions
          /\ reply' = OtpPromptReply(s)]_vars

\* C5, its case: a session that waits for its code was re-prompted.
C5_Reprompted ==
  \E s \in SessionIds :
    /\ reply = OtpPromptReply(s)
    /\ AwaitingCode(s)
    /\ Stored(s).lastActive = now
    /\ Stored(s).otpTimestamp < now

\* C6: when the stored session of an id is stale, or was stale and the sweep has
\* removed it since its last message, the next chat message for the id gets the
\* expiry reply and leaves no session stored for the id.
C6_StaleGetsExpiryReply ==
  [][\A s \in SessionIds : \A message \in ExpiryMessages(s) :
       ((Stale(s) \/ s \in idleSwept) /\ ExpiryChat(s, message))
       => (reply' = ExpiredReply(s) /\ sessions'[s] = NoObj)]_vars

\* C7: a step that removes a stale session, other than a reset, leaves its id in
\* expiredSessions; and a message for an id in expiredSessions gets the expiry
\* reply and creates no session.
C7_RemovedIdIsKnownExpired ==
  [][\A s \in SessionIds :
       /\ (Stale(s) /\ sessions'[s] = NoObj /\ NoReset) => s \in expiredSessions'
       /\ \A message \in ExpiryMessages(s) :
            (s \in expiredSessions /\ ExpiryChat(s, message))
            => (reply' = ExpiredReply(s) /\ sessions'[s] = NoObj)]_vars

\* C8: an id leaves expiredSessions, other than by a reset, only when it has been
\* in it for more than EXPIRED_RETENTION.
C8_KnownExpiredKeptFiveMinutes ==
  [][\A s \in SessionIds :
       (s \in expiredSessions /\ s \notin expiredSessions' /\ NoReset)
       => now - expiredAt[s] > EXPIRED_RETENTION]_vars

\* C9: the state a session has after the intent dispatch of one of its messages,
\* which the reply reports, is what handleLlmRequest gives for that session's own
\* state, its order and the model's answer; it does not depend on the messages of
\* other sessions.
C9_DispatchUsesOwnState ==
  [][\A r \in Reqs : \A outcome \in ConversationOutcomes :
       AfterLlm(r, outcome)
       => LET own == handleLlmRequest(outcome, heap[inflight[r].obj].conversationState,
                                      inflight[r].order).nextState
          IN /\ reply'.conversationState = own
             /\ sessions[inflight[r].sid] = inflight[r].obj
                  => heap'[inflight[r].obj].conversationState = own]_vars

\* C10: between two seed resets the reschedule update is applied to an order at
\* most once.
C10_RescheduledAtMostOnce == \A a \in Awbs : rescheduleCount[a] <= 1

\* the Order Store holds order a and would not let it be rescheduled
Closed(a) ==
  getOrderStatus(orders, a) # NullOrder /\ ~canReschedule(getOrderStatus(orders, a))
\* the handler in slot r replies in this step
Replies(r) == inflight[r].pc # "free" /\ inflight'[r].pc = "free"
\* the reply offers reschedule options
Offers(rep) == rep.requiresReschedule \/ rep.rescheduleOptions # << >>

\* C11: when the dispatch of a message about an order replies, and the Order Store
\* holds that order as Delivered, Out for Delivery or already rescheduled, the reply
\* offers no reschedule options and the session is not left in RESCHEDULE_OPTIONS
\* with stored options.
C11_ClosedOrderNeverOffered ==
  [][\A r \in Reqs :
       (/\ Replies(r)
        /\ inflight[r].pc = "handleUserMessage"
        /\ inflight[r].order # NullOrder
        /\ Closed(inflight[r].order.awb)
        /\ sessions[inflight[r].sid] = inflight[r].obj)
       => /\ ~Offers(reply')
          /\ ~(/\ heap'[inflight[r].obj].conversationState = "RESCHEDULE_OPTIONS"
               /\ heap'[inflight[r].obj].rescheduleOptions # << >>)]_vars

\* C12: when a session that is verified and holds order X comes to hold a different
\* order Y, that step issues a new OTP, leaves the session unverified and moves it to
\* AWAITING_OTP (so that, replies with details or status coming from verified
\* sessions only, nothing of Y is shown before the new code is entered).
C12_OtherOrderNeedsNewOtp ==
  [][\A s \in SessionIds :
       (/\ sessions[s] # NoObj
        /\ sessions'[s] = sessions[s]
        /\ Stored(s).otpVerified
        /\ Stored(s).currentOrder # NullOrder
        /\ Stored(s)'.currentOrder # NullOrder
        /\ Stored(s)'.currentOrder.awb # Stored(s).currentOrder.awb)
       => /\ Stored(s)'.conversationState = "AWAITING_OTP"
          /\ Stored(s)'.otp # << >>
          /\ ~Stored(s)'.otpVerified]_vars

\* the session of s is in RESCHEDULE_OPTIONS with three pending options, and a
\* message for it passes the expiry checks and the OTP gate
ThreePending(s) ==
  /\ sessions[s] # NoObj
  /\ PassesExpiryCheck(s)
  /\ ~AwaitingCode(s)
  /\ Stored(s).conversationState = "RESCHEDULE_OPTIONS"
  /\ Len(Stored(s).rescheduleOptions) = 3
\* the position a message names
Position(message) ==
  CASE message = <<"1">> -> 1 [] message = <<"2">> -> 2 [] message = <<"3">> -> 3
    [] OTHER -> 0
\* the handler in slot r works on the stored session of its id
OnStored(r) == inflight[r].pc # "free" /\ sessions[inflight[r].sid] = inflight[r].obj
\* the stored session of s is the same but for its lastActive
SameButActivity(s) ==
  /\ sessions'[s] = sessions[s]
  /\ [Stored(s)' EXCEPT !.lastActive = 0] = [Stored(s) EXCEPT !.lastActive = 0]

\* C13: with three pending options in RESCHEDULE_OPTIONS, a message 1, 2 or 3 starts
\* the update of the session's order with the option at that position; when the
\* store applies it, the order in the Order Store is Rescheduled with
\* scheduledDelivery equal to that option's date; and when the store answers the
\* refresh read, the session's order is the store's, the pending list is empty, the
\* session is in ORDER_FOUND and the reply says so.
C13_SelectionReschedules ==
  [][/\ \A s \in SessionIds, message \in RescheduleMessages :
          (ThreePending(s) /\ Position(message) \in 1 .. 3 /\ RescheduleChat(s, message))
          => \E r \in Reqs :
               /\ inflight[r].pc = "free"
               /\ inflight'[r].pc = "rescheduleOrder"
               /\ inflight'[r].sid = s
               /\ inflight'[r].awb = Stored(s).currentOrder.awb
               /\ inflight'[r].option = Stored(s).rescheduleOptions[Position(message)]
               /\ orders' = orders
     /\ \A r \in Reqs :
          (inflight[r].pc = "rescheduleOrder" /\ OnStored(r)
             /\ RescheduleResume(r) /\ ~DbRescheduleFailed(r))
          => /\ orders'[inflight[r].awb].status = "Rescheduled"
             /\ orders'[inflight[r].awb].scheduledDelivery = inflight[r].option.date
             /\ \A a \in Awbs \ {inflight[r].awb} : orders'[a] = orders[a]
             /\ inflight'[r].pc = "refresh"
     /\ \A r \in Reqs :
          (inflight[r].pc = "refresh" /\ OnStored(r)
             /\ RescheduleResume(r) /\ ~DbFindOneFailed(r))
          => /\ heap'[inflight[r].obj].currentOrder =
                  getOrderStatus(orders, heap[inflight[r].obj].currentOrder.awb)
             /\ heap'[inflight[r].obj].rescheduleOptions = << >>
             /\ heap'[inflight[r].obj].conversationState = "ORDER_FOUND"
             /\ reply'.conversationState = "ORDER_FOUND"
             /\ reply'.display = inflight[r].option.display
             /\ inflight'[r].pc = "free"
             /\ orders' = orders]_vars
\* the third option was chosen: the order is rescheduled to its date, the session
\* holds the store's order in ORDER_FOUND without options
C13_ThirdOptionApplied ==
  \E s \in SessionIds :
    /\ sessions[s] # NoObj
    /\ reply.sid = s
    /\ reply.display = RescheduleOptionAt(sampleOrders[AwbTransit].estimatedDelivery, 3).display
    /\ orders[AwbTransit].status = "Rescheduled"
    /\ orders[AwbTransit].scheduledDelivery =
         RescheduleOptionAt(sampleOrders[AwbTransit].estimatedDelivery, 3).date
    /\ Stored(s).currentOrder = orders[AwbTransit]
    /\ Stored(s).rescheduleOptions = << >>
    /\ Stored(s).conversationState = "ORDER_FOUND"

\* C14: with three pending options in RESCHEDULE_OPTIONS, a message that is not 1, 2
\* or 3 (0, 4, text) leaves the pending list, the state, the order snapshot and the
\* Order Store as they are, starts nothing, and is answered with the correction
\* reply, whose conversationState is RESCHEDULE_OPTIONS.
C14_OtherAnswerCorrected ==
  [][\A s \in SessionIds, message \in RescheduleMessages :
       (ThreePending(s) /\ Position(message) = 0 /\ RescheduleChat(s, message))
       => /\ SameButActivity(s)
          /\ orders' = orders
          /\ inflight' = inflight
          /\ reply' = SlotRangeReply(s, Stored(s))
          /\ reply'.conversationState = "RESCHEDULE_OPTIONS"]_vars
\* a correction reply went to a session that still has its three options
C14_Corrected ==
  \E s \in SessionIds :
    /\ sessions[s] # NoObj
    /\ reply = SlotRangeReply(s, Stored(s))
    /\ Stored(s).conversationState = "RESCHEDULE_OPTIONS"
    /\ Len(Stored(s).rescheduleOptions) = 3

\* C20: when the update of a selected slot fails, the session is left exactly as it
\* was, in RESCHEDULE_OPTIONS with its three options and its order snapshot, the
\* Order Store is unchanged, the reply is the retry message, and every message 1, 2
\* or 3 is again taken as a selection.
C20_FailedUpdateKeepsOffer ==
  [][\A r \in Reqs :
       (inflight[r].pc = "rescheduleOrder" /\ OnStored(r)
          /\ RescheduleResume(r) /\ ~DbRescheduleApplied(r))
       => /\ sessions' = sessions
          /\ heap'[inflight[r].obj] = heap[inflight[r].obj]
          /\ heap'[inflight[r].obj].conversationState = "RESCHEDULE_OPTIONS"
          /\ Len(heap'[inflight[r].obj].rescheduleOptions) = 3
          /\ heap'[inflight[r].obj].currentOrder # NullOrder
          /\ orders' = orders
          /\ reply'.sid = inflight[r].sid
          /\ reply'.response = "Failed to reschedule. Please try again later."
          /\ inflight'[r].pc = "free"
          /\ \A message \in {MsgSlot1, MsgSlot2, MsgSlot3} :
               /\ SlotGate(heap'[inflight[r].obj])
               /\ SlotValid(heap'[inflight[r].obj], message)]_vars
\* the retry message went to a session that still has its three options
C20_AskedToRetry ==
  \E s \in SessionIds :
    /\ sessions[s] # NoObj
    /\ reply.sid = s
    /\ reply.response = "Failed to reschedule. Please try again later."
    /\ Stored(s).conversationState = "RESCHEDULE_OPTIONS"
    /\ Len(Stored(s).rescheduleOptions) = 3
    /\ Stored(s).currentOrder # NullOrder

\* C17: a message with the tracking id of an existing order, from a new session or
\* from an unverified one that is not awaiting a code, starts the lookup; when the
\* store answers, the session holds a 6-digit OTP issued now, the fetched order and
\* state AWAITING_OTP, and the reply is the OTP prompt with requiresOtp = true, the
\* same whatever became of the WhatsApp message.
C17_OtpIssuedWhateverNotifier ==
  [][/\ \A s \in SessionIds :
          (/\ MsgAwbTransit \in ExpiryMessages(s)
           /\ s \notin expiredSessions
           /\ sessions[s] # NoObj =>
                /\ PassesExpiryCheck(s)
                /\ ~Stored(s).otpVerified
                /\ Stored(s).conversationState # "AWAITING_OTP"
           /\ ExpiryChat(s, MsgAwbTransit))
          => \E r \in Reqs :
               /\ inflight[r].pc = "free"
               /\ inflight'[r].pc = "getOrderStatus"
               /\ inflight'[r].sid = s
               /\ inflight'[r].obj = sessions'[s]
               /\ inflight'[r].awb = AwbTransit
     /\ \A r \in Reqs :
          (/\ inflight[r].pc = "getOrderStatus"
           /\ OnStored(r)
           /\ ~heap[inflight[r].obj].otpVerified
           /\ orders[inflight[r].awb] # NullOrder
           /\ ExpiryResume(r)
           /\ ~DbFindOneFailed(r))
          => /\ sessions' = sessions
             /\ SixDigits(heap'[inflight[r].obj].otp)
             /\ heap'[inflight[r].obj].otpTimestamp = now
             /\ heap'[inflight[r].obj].currentOrder = orders[inflight[r].awb]
             /\ heap'[inflight[r].obj].conversationState = "AWAITING_OTP"
             /\ ~heap'[inflight[r].obj].otpVerified
             /\ reply'.requiresOtp
             /\ [reply' EXCEPT !.notifier = ""] = OtpIssuedReply(inflight[r].sid, "")
             /\ inflight'[r].pc = "free"]_vars
\* the OTP prompt went out although the WhatsApp message failed, and the session
\* awaits the code
C17_IssuedThoughNotifierFailed ==
  \E s \in SessionIds :
    /\ sessions[s] # NoObj
    /\ reply = OtpIssuedReply(s, "failed")
    /\ AwaitingCode(s)
    /\ Stored(s).currentOrder = orders[AwbTransit]
    /\ Stored(s).otpTimestamp = now

\* C18: when a message without a tracking id comes for a session that holds an order,
\* is not verified and is not awaiting a code, no handler is started (the resolver
\* is not called), the reply asks for the OTP, and the session is then in
\* AWAITING_OTP with a code the OTP gate can check.
C18_GateLeavesSessionAwaiting ==
  [][\A s \in SessionIds : \A message \in ExpiryMessages(s) \ {MsgAwbTransit} :
       (/\ sessions[s] # NoObj
        /\ PassesExpiryCheck(s)
        /\ Stored(s).currentOrder # NullOrder
        /\ ~Stored(s).otpVerified
        /\ Stored(s).conversationState # "AWAITING_OTP"
        /\ ExpiryChat(s, message))
       => /\ inflight' = inflight
          /\ reply' = GateReply(s)
          /\ reply'.requiresOtp
          /\ sessions'[s] = sessions[s]
          /\ AwaitingCode(s)']_vars

\* no handler is in progress
Quiescent == Busy = {}
\* what one-at-a-time processing keeps true of a session and of the Order Store:
\* options are pending only in RESCHEDULE_OPTIONS, and an order is updated once
SerialOutcome ==
  /\ \A s \in SessionIds :
       sessions[s] # NoObj /\ Stored(s).rescheduleOptions # << >>
         => Stored(s).conversationState = "RESCHEDULE_OPTIONS"
  /\ \A a \in Awbs : rescheduleCount[a] <= 1

\* C15: once the overlapping messages of a session have all been answered, the
\* session record and the Order Store are as some one-after-the-other processing
\* leaves them: they have every property that one-at-a-time processing preserves.
C15_OverlapAsIfSerial == Quiescent => SerialOutcome

\* C19: in every reachable state, a session with pending reschedule options is in
\* RESCHEDULE_OPTIONS.
C19_OptionsOnlyInRescheduleOptions ==
  \A s \in SessionIds :
    sessions[s] # NoObj /\ Len(Stored(s).rescheduleOptions) > 0
      => Stored(s).conversationState = "RESCHEDULE_OPTIONS"

\* C16: while a handler is suspended at an await, the session object it looked up
\* is the one stored under its session id: neither the sweep nor a reset has removed
\* it, so the handler assigns to, and replies from, a stored session.
C16_SuspendedSessionStaysStored ==
  \A r \in Reqs : inflight[r].pc # "free" => sessions[inflight[r].sid] = inflight[r].obj

\* C21: a session that is in COMPLETED stays in COMPLETED whatever message comes
\* for it afterwards.
C21_CompletedIsTerminal ==
  [][\A s \in SessionIds :
       (/\ sessions[s] # NoObj
        /\ sessions'[s] = sessions[s]
        /\ Stored(s).conversationState = "COMPLETED")
       => Stored(s)'.conversationState = "COMPLETED"]_vars

\* the replies of handleLlmRequest when it recognises no action or fails
FallbackTexts ==
  {"How can I help with your delivery today?", "How can I assist with your delivery?",
   "I'm having some trouble right now"}

\* C22: when the model call comes back without a tool call, or fails, the reply is
\* a generic fallback and the session is in INITIAL afterwards, whatever state it and
\* the other sessions were in.
C22_FallbackResetsToInitial ==
  [][\A r \in Reqs : \A outcome \in {"no_tool_call", "error"} :
       (OnStored(r) /\ AfterLlm(r, outcome))
       => /\ reply'.response \in FallbackTexts
          /\ reply'.conversationState = "INITIAL"
          /\ heap'[inflight[r].obj].conversationState = "INITIAL"]_vars

\* C29: the state a handler hands to handleLlmRequest is the state stored in its
\* session at that moment, and the state stored in the session when the handler
\* replies is the nextState handleLlmRequest returned for that message.
C29_ResolverGetsSessionState ==
  [][/\ \A r \in Reqs :
          (inflight[r].pc # "handleUserMessage" /\ inflight'[r].pc = "handleUserMessage")
          => inflight'[r].state = heap'[inflight'[r].obj].conversationState
     /\ \A r \in Reqs : \A outcome \in DialogueOutcomes :
          (OnStored(r) /\ AfterLlm(r, outcome))
          => heap'[inflight[r].obj].conversationState =
               handleLlmRequest(outcome, inflight[r].state, inflight[r].order).nextState]_vars

\* C23: when the read of the Order Store fails, after a tracking id or after an
\* applied reschedule, the reply is the retry message, the session is in INITIAL
\* afterwards, and it holds no pending options for an order the store has as
\* rescheduled.
C23_FailedReadResetsSession ==
  [][\A r \in Reqs :
       (/\ OnStored(r)
        /\ inflight[r].pc \in {"getOrderStatus", "refresh"}
        /\ DbFindOneFailed(r))
       => /\ reply' = InternalErrorReply(inflight[r].sid, heap[inflight[r].obj])
          /\ heap'[inflight[r].obj].conversationState = "INITIAL"
          /\ ~(/\ heap'[inflight[r].obj].rescheduleOptions # << >>
               /\ heap'[inflight[r].obj].currentOrder # NullOrder
               /\ Closed(heap'[inflight[r].obj].currentOrder.awb))]_vars

\* C24: a message for an id of the known-expired set gets the fixed expiry reply
\* (SESSION_EXPIRED, sessionExpired and endConversation true) and changes nothing:
\* the sessions, their records, the known-expired set, the Order Store, the handlers
\* in progress (no store, resolver or notifier call is started) and the assistant's
\* state are as before.
C24_KnownExpiredChangesNothing ==
  [][\A s \in SessionIds : \A message \in ExpiryMessages(s) :
       (s \in expiredSessions /\ ExpiryChat(s, message))
       => /\ reply' = ExpiredReply(s)
          /\ reply'.conversationState = "SESSION_EXPIRED"
          /\ reply'.sessionExpired
          /\ reply'.endConversation
          /\ UNCHANGED <<sessions, heap, expiredSessions, orders, inflight,
                         conversationState, rescheduleCount, resetPc, now>>]_vars
\* an id that expired a minute or more ago, and is still known as expired, has just
\* been given the expiry reply
C24_KnownExpiredAnswered ==
  \E s \in SessionIds :
    /\ s \in expiredSessions
    /\ sessions[s] = NoObj
    /\ expiredAt[s] < now
    /\ reply = ExpiredReply(s)

\* C25: a reset of an id leaves it in neither the active sessions nor the known-
\* expired set, whatever it was before; an id that is in neither stays so until a
\* message comes for it; and that message makes a new session object for it, in
\* INITIAL, without order, options or OTP and with otpVerified = false.
C25_ResetThenFreshSession ==
  [][\A s \in SessionIds :
       /\ ResetSession(s) => sessions'[s] = NoObj /\ s \notin expiredSessions'
       /\ (sessions[s] = NoObj /\ s \notin expiredSessions)
          => IF \E message \in ExpiryMessages(s) : ExpiryChat(s, message)
               THEN /\ sessions'[s] # NoObj
                    /\ \A r \in Reqs : inflight[r].pc # "free" => inflight[r].obj # sessions'[s]
                    /\ Stored(s)' = NewSession(now)
                    /\ Stored(s)'.conversationState = "INITIAL"
                    /\ Stored(s)'.currentOrder = NullOrder
                    /\ Stored(s)'.rescheduleOptions = << >>
                    /\ Stored(s)'.otp = << >>
                    /\ ~Stored(s)'.otpVerified
                    /\ s \notin expiredSessions'
               ELSE sessions'[s] = NoObj /\ s \notin expiredSessions']_vars
\* a reset has removed a session one of whose handlers is still suspended: the id is
\* in neither the active sessions nor the known-expired set while the orders are
\* being reseeded
C25_RemovedByReset ==
  \E s \in SessionIds :
    /\ resetPc = "deleteMany"
    /\ sessions[s] = NoObj
    /\ s \notin expiredSessions
    /\ expiredAt[s] = 0
    /\ \E r \in Reqs : inflight[r].pc # "free" /\ inflight[r].sid = s

\* C26: a chat request without a sessionId is answered with status 400 and changes
\* nothing: no session is created or modified, the known-expired set and the Order
\* Store are as before, and no handler is left waiting for the store, the resolver or
\* the notifier.
C26_NoSessionIdIsClientError ==
  [][\A message \in ExpiryMessages("s1") :
       ChatNoSessionId(message)
       => /\ reply'.code = 400
          /\ reply'.response = ""
          /\ UNCHANGED <<sessions, heap, expiredSessions, orders, inflight,
                         conversationState, rescheduleCount, resetPc, now>>]_vars
\* the client error was returned while a session was live
C26_RejectedBesideLiveSession ==
  /\ reply = BadRequestReply
  /\ sessions["s1"] # NoObj
  /\ Stored("s1").otpVerified

\* the order is In Transit and not yet rescheduled
OpenInTransit(order) == order.status = "In Transit" /\ ~order.rescheduled
\* the handler in slot r resumes and the store or the resolver has answered its call
Answers(r) ==
  /\ OnStored(r)
  /\ RescheduleResume(r)
  /\ ~DbFindOneFailed(r)
  /\ ~DbRescheduleFailed(r)

\* C27: the conversation end to end, each step from the session the step before
\* leaves. (1) The tracking id of an In Transit, not rescheduled order, sent for a
\* new id, starts the lookup, and the answer brings requiresOtp = true and state
\* AWAITING_OTP. (2) The issued code then gives ORDER_FOUND and otpVerified = true.
\* (3) A message resolved as a reschedule request then gives requiresReschedule =
\* true, exactly 3 options and state RESCHEDULE_OPTIONS. (4) The message 2 then
\* updates the order to Rescheduled with scheduledDelivery equal to the second
\* option's date, and the reply has orderDetails and state ORDER_FOUND.
C27_TrackVerifyReschedule ==
  [][/\ \A s \in SessionIds :
          (/\ sessions[s] = NoObj
           /\ s \notin expiredSessions
           /\ RescheduleChat(s, MsgAwbTransit))
          => \E r \in Reqs :
               /\ inflight'[r].pc = "getOrderStatus"
               /\ inflight'[r].sid = s
               /\ inflight'[r].awb = AwbTransit
               /\ Stored(s)' = NewSession(now)
     /\ \A r \in Reqs :
          (/\ inflight[r].pc = "getOrderStatus"
           /\ Answers(r)
           /\ heap[inflight[r].obj] = NewSession(heap[inflight[r].obj].lastActive)
           /\ OpenInTransit(orders[inflight[r].awb]))
          => /\ reply'.requiresOtp
             /\ reply'.conversationState = "AWAITING_OTP"
             /\ heap'[inflight[r].obj].conversationState = "AWAITING_OTP"
             /\ SixDigits(heap'[inflight[r].obj].otp)
             /\ ~heap'[inflight[r].obj].otpVerified
             /\ OpenInTransit(heap'[inflight[r].obj].currentOrder)
     /\ \A s \in SessionIds, message \in RescheduleMessages :
          (/\ AwaitingCode(s)
           /\ message = Stored(s).otp
           /\ now - Stored(s).otpTimestamp <= OTP_VALIDITY
           /\ RescheduleChat(s, message))
          => /\ reply' = OtpSuccessReply(s)
             /\ Stored(s)'.conversationState = "ORDER_FOUND"
             /\ Stored(s)'.otpVerified
             /\ Stored(s)'.currentOrder = Stored(s).currentOrder
     /\ \A s \in SessionIds :
          (/\ sessions[s] # NoObj
           /\ Stored(s).otpVerified
           /\ Stored(s).conversationState = "ORDER_FOUND"
           /\ OpenInTransit(Stored(s).currentOrder)
           /\ RescheduleChat(s, MsgText))
          => \E r \in Reqs :
               /\ inflight'[r].pc = "handleUserMessage"
               /\ inflight'[r].sid = s
               /\ inflight'[r].order = Stored(s).currentOrder
     /\ \A r \in Reqs :
          (/\ inflight[r].pc = "handleUserMessage"
           /\ OnStored(r)
           /\ OpenInTransit(inflight[r].order)
           /\ AfterLlm(r, "reschedule"))
          => /\ reply'.requiresReschedule
             /\ Len(reply'.rescheduleOptions) = 3
             /\ reply'.conversationState = "RESCHEDULE_OPTIONS"
             /\ heap'[inflight[r].obj].conversationState = "RESCHEDULE_OPTIONS"
             /\ heap'[inflight[r].obj].rescheduleOptions =
                  generateRescheduleOptions(inflight[r].order.estimatedDelivery)
     /\ \A s \in SessionIds :
          (ThreePending(s) /\ RescheduleChat(s, MsgSlot2))
          => \E r \in Reqs :
               /\ inflight'[r].pc = "rescheduleOrder"
               /\ inflight'[r].sid = s
               /\ inflight'[r].option = Stored(s).rescheduleOptions[2]
     /\ \A r \in Reqs :
          (inflight[r].pc = "rescheduleOrder" /\ Answers(r))
          => /\ orders'[inflight[r].awb].status = "Rescheduled"
             /\ orders'[inflight[r].awb].scheduledDelivery = inflight[r].option.date
     /\ \A r \in Reqs :
          (inflight[r].pc = "refresh" /\ Answers(r) /\ orders[inflight[r].awb] # NullOrder)
          => /\ reply'.orderDetails = formatOrderDetails(orders[inflight[r].awb])
             /\ reply'.orderDetails # NoDetails
             /\ reply'.conversationState = "ORDER_FOUND"
             /\ heap'[inflight[r].obj].conversationState = "ORDER_FOUND"]_vars
\* the end of the conversation: the second option was chosen, the order is
\* rescheduled to its date, and the reply shows the order
C27_SecondOptionConfirmed ==
  \E s \in SessionIds :
    /\ sessions[s] # NoObj
    /\ reply.sid = s
    /\ reply.orderDetails = formatOrderDetails(orders[AwbTransit])
    /\ reply.conversationState = "ORDER_FOUND"
    /\ reply.display =
         generateRescheduleOptions(sampleOrders[AwbTransit].estimatedDelivery)[2].display
    /\ orders[AwbTransit].status = "Rescheduled"
    /\ orders[AwbTransit].scheduledDelivery =
         generateRescheduleOptions(sampleOrders[AwbTransit].estimatedDelivery)[2].date
    /\ Stored(s).otpVerified
    /\ Stored(s).conversationState = "ORDER_FOUND"
    /\ Stored(s).rescheduleOptions = << >>

\* date-time a is before date-time b
Before(a, b) == a.day < b.day \/ (a.day = b.day /\ a.hour < b.hour)
\* the options are the three the claim describes for baseDate
ThreeSlotsFrom(options, baseDate) ==
  /\ Len(options) = 3
  /\ \A i \in 1 .. 3 :
       /\ options[i].date.day = baseDate.day + i
       /\ options[i].display.day = baseDate.day + i
       /\ options[i].display.slot = <<"Afternoon", "Evening", "Morning">>[i]
       /\ options[i].date.hour = <<13, 18, 9>>[i]
       /\ options[i].display.slot = <<"Morning", "Afternoon", "Evening">>[(i % 3) + 1]
  /\ Before(options[1].date, options[2].date)
  /\ Before(options[2].date, options[3].date)

\* C28: generateRescheduleOptions(baseDate) gives exactly 3 options, for the days
\* baseDate + 1, + 2, + 3, with strictly increasing date-times and the slots
\* Afternoon 13:00, Evening 18:00, Morning 09:00 in that order; it gives the same
\* options each time it is called with the same baseDate. So it is for every base
\* date, and for the options a session holds and a reply shows after a dispatch.
C28_ThreeOptionsInOrder ==
  /\ \A baseDate \in BaseDates :
       /\ ThreeSlotsFrom(generateRescheduleOptions(baseDate), baseDate)
       /\ generateRescheduleOptions(baseDate) =
            [i \in 1 .. 3 |-> generateRescheduleOptions(baseDate)[i]]
  /\ \A s \in SessionIds :
       (sessions[s] # NoObj /\ Stored(s).rescheduleOptions # << >>)
       => /\ ThreeSlotsFrom(Stored(s).rescheduleOptions,
                            Stored(s).currentOrder.estimatedDelivery)
          /\ Stored(s).rescheduleOptions =
               generateRescheduleOptions(orders[AwbTransit].estimatedDelivery)
  /\ reply.rescheduleOptions # << >>
       => reply.rescheduleOptions =
            [i \in 1 .. 3 |->
               generateRescheduleOptions(orders[AwbTransit].estimatedDelivery)[i].display]
\* options were offered for a delivery date late in the evening of the last day
C28_OfferedForLateDate ==
  \E s \in SessionIds :
    /\ sessions[s] # NoObj
    /\ Len(Stored(s).rescheduleOptions) = 3
    /\ Stored(s).currentOrder.estimatedDelivery = [day |-> MaxBaseDay, hour |-> 23]
    /\ Len(reply.rescheduleOptions) = 3

\* the stored session of s is within the idle limit (the limit itself included)
WithinLimit(s) == now - Stored(s).lastActive <= SESSION_EXPIRATION
\* a message for a live session within the limit is accepted and stamps lastActive
\* with its arrival time; beyond the limit it expires the session
MessageTimeCheck ==
  \A s \in SessionIds : \A message \in ExpiryMessages(s) :
    (sessions[s] # NoObj /\ s \notin expiredSessions /\ ExpiryChat(s, message))
    => IF WithinLimit(s)
         THEN /\ sessions'[s] = sessions[s]
              /\ Stored(s)'.lastActive = now
              /\ s \notin expiredSessions'
              /\ reply' # ExpiredReply(s)
         ELSE /\ sessions'[s] = NoObj
              /\ s \in expiredSessions'
              /\ reply' = ExpiredReply(s)
\* a session leaves the active sessions, other than by a reset, only beyond the limit
RemovedOnlyBeyondLimit ==
  \A s \in SessionIds :
    (sessions[s] # NoObj /\ sessions'[s] = NoObj /\ ~ResetSession(s)) => ~WithinLimit(s)
\* the lastActive of the stored session of s changes in this step
Restamped(s) ==
  /\ sessions[s] # NoObj
  /\ sessions'[s] = sessions[s]
  /\ Stored(s)'.lastActive # Stored(s).lastActive

\* C30 as stated: a message within the limit (the limit included) is accepted and
\* sets lastActive to its arrival time, the message-time check and the sweep remove
\* a session only beyond the limit, and lastActive is only ever set to the arrival
\* time of a message, so that a session messaged at least every SESSION_EXPIRATION
\* is never expired.
C30_MessagedSessionNeverExpires ==
  [][/\ MessageTimeCheck
     /\ RemovedOnlyBeyondLimit
     /\ \A s \in SessionIds : Restamped(s) => Stored(s)'.lastActive = now]_vars

\* C30, amended: the same, except that a request to /api/test-session-expiration
\* sets lastActive back beyond the limit.
C30_NeverExpiresUnlessBackdated ==
  [][/\ MessageTimeCheck
     /\ RemovedOnlyBeyondLimit
     /\ \A s \in SessionIds :
          Restamped(s)
          => \/ Stored(s)'.lastActive = now
             \/ /\ TestSessionExpiration(s)
                /\ now - Stored(s)'.lastActive > SESSION_EXPIRATION]_vars
\* a session that got its code two minutes ago is answered now, at the limit, and
\* its lastActive is the present minute
C30_AnsweredAtLimit ==
  \E s \in SessionIds :
    /\ AwaitingCode(s)
    /\ now - Stored(s).otpTimestamp = SESSION_EXPIRATION
    /\ reply = OtpPromptReply(s)
    /\ Stored(s).lastActive = now

\* the handler in slot r has got the answer of its read of the order its message named
FetchAnswered(r) ==
  /\ inflight[r].pc = "getOrderStatus"
  /\ inflight'[r].pc # "getOrderStatus"
  /\ ~DbFindOneFailed(r)

\* C31: when the read of the order named by a message of a verified session is
\* answered, the session's currentOrder is the record the store holds for that tracking
\* id at that moment, whatever snapshot the session held before; when the store holds
\* no such order, the session's currentOrder is what it was.
C31_FetchReplacesSnapshot ==
  [][\A r \in Reqs :
       (FetchAnswered(r) /\ heap[inflight[r].obj].otpVerified)
       => heap'[inflight[r].obj].currentOrder =
            IF inflight[r].awb \in Awbs /\ orders[inflight[r].awb] # NullOrder
              THEN orders[inflight[r].awb]
              ELSE heap[inflight[r].obj].currentOrder]_vars

\* C31, its case: a verified session that held the order as it was seeded has named
\* it again after the other client rescheduled it, and now holds the rescheduled record.
C31_SnapshotOfRescheduledOrder ==
  \E r \in Reqs :
    /\ inflight[r].pc = "handleUserMessage"
    /\ inflight[r].awb = AwbTransit
    /\ sessions[inflight[r].sid] = inflight[r].obj
    /\ heap[inflight[r].obj].otpVerified
    /\ orders[AwbTransit].rescheduled
    /\ rescheduleCount[AwbTransit] = 1
    /\ heap[inflight[r].obj].currentOrder = orders[AwbTransit]
    /\ \E t \in SessionIds \ {inflight[r].sid} :
         /\ sessions[t] # NoObj
         /\ Stored(t).otpVerified
         /\ Stored(t).currentOrder = orders[AwbTransit]

\* the states a session record may hold
StoredStates ==
  {"INITIAL", "AWAITING_AWB", "AWAITING_OTP", "ORDER_FOUND", "RESCHEDULE_OPTIONS",
   "COMPLETED"}

\* C32: the conversationState of every session object, stored in the Map or held by
\* a suspended handler, is one of INITIAL, AWAITING_AWB, AWAITING_OTP, ORDER_FOUND,
\* RESCHEDULE_OPTIONS and COMPLETED; SESSION_EXPIRED is written only in a reply, and
\* the id that gets such a reply has no session record.
C32_ExpiredStateNeverStored ==
  /\ \A o \in ObjIds : heap[o].conversationState \in StoredStates
  /\ conversationState \in StoredStates
  /\ reply.conversationState = "SESSION_EXPIRED"
       => reply = ExpiredReply(reply.sid) /\ sessions[reply.sid] = NoObj

\* C32, its case: one client was just told SESSION_EXPIRED while the session of the
\* other one is stored with an offer pending.
C32_ExpiredReplyBesideStoredSession ==
  \E s \in SessionIds :
    /\ reply = ExpiredReply(s)
    /\ sessions[s] = NoObj
    /\ \E t \in SessionIds \ {s} :
         /\ sessions[t] # NoObj
         /\ Stored(t).conversationState = "RESCHEDULE_OPTIONS"

\* the session object of s after the step
StoredNext(s) == heap'[sessions[s]]

\* C33: a six-digit message that reaches the OTP gate of a session waiting for its
\* code ends the wait: the session is verified and in ORDER_FOUND, or its code is
\* cleared and it is in INITIAL. A code is accepted only from a session that waits,
\* when it is the code the session holds at that moment and is in time; and once the
\* code a session object holds is cleared or replaced, no message with the earlier
\* code matches.
C33_OneSubmissionPerCode ==
  [][/\ \A s \in CodesSessions : \A message \in CodesMessages :
          /\ ( /\ AwaitingCode(s)
               /\ PassesExpiryCheck(s)
               /\ SixDigits(message)
               /\ CodesChat(s, message) )
             => /\ sessions'[s] = sessions[s]
                /\ StoredNext(s).conversationState # "AWAITING_OTP"
                /\ \/ /\ StoredNext(s).otpVerified
                      /\ StoredNext(s).conversationState = "ORDER_FOUND"
                      /\ reply' = OtpSuccessReply(s)
                   \/ /\ ~StoredNext(s).otpVerified
                      /\ StoredNext(s).conversationState = "INITIAL"
                      /\ StoredNext(s).otp = << >>
                      /\ StoredNext(s).otpTimestamp = 0
                      /\ reply'.response = "Verification unsuccessful, try again later."
          /\ (reply' = OtpSuccessReply(s) /\ CodesChat(s, message))
             => /\ AwaitingCode(s)
                /\ Trim(message) = Stored(s).otp
                /\ now - Stored(s).otpTimestamp <= OTP_VALIDITY
     /\ \A o \in ObjIds :
          (heap[o].otp # << >> /\ heap'[o].otp # heap[o].otp)
          => \A later \in Messages :
               Trim(later) = heap[o].otp => ~OtpMatches(heap'[o], later, now')]_vars

\* C33, its case: a six-digit message that was not the code the session held was
\* rejected at the gate; the session is in INITIAL, unverified, its code and the
\* code's time cleared.
C33_SubmissionEndedWait ==
  \E s \in CodesSessions :
    /\ reply = OtpFailureReply(s, FALSE)
    /\ sessions[s] # NoObj
    /\ Stored(s).conversationState = "INITIAL"
    /\ Stored(s).otp = << >>
    /\ Stored(s).otpTimestamp = 0
    /\ ~Stored(s).otpVerified

\* C34: after a chat reply that carries a conversationState other than
\* SESSION_EXPIRED, the session stored under the reply's id holds that state.
C34_ReplyStateIsStoredState ==
  ( /\ reply.sid # ""
    /\ reply.conversationState \notin {"", "SESSION_EXPIRED"}
    /\ sessions[reply.sid] # NoObj )
  => Stored(reply.sid).conversationState = reply.conversationState

\* C35: a reply that tells the client that a code was issued is sent only after
\* sendWhatsAppUpdate was called with that code, so that every session that waits in
\* AWAITING_OTP waits for a code the notifier was given.
C35_IssuedCodeHandedToNotifier ==
  [][\A s \in SessionIds :
       (reply'.sid = s /\ reply'.response = OtpIssuedReply(s, "").response)
       => reply'.notifier \in NotifierOutcomes]_vars

\* C36: a stored session whose state is ORDER_FOUND or RESCHEDULE_OPTIONS is
\* verified and holds an order, whatever the other sessions do.
C36_OrderStatesAreVerified ==
  \A s \in SessionIds :
    ( /\ sessions[s] # NoObj
      /\ Stored(s).conversationState \in {"ORDER_FOUND", "RESCHEDULE_OPTIONS"} )
    => Stored(s).otpVerified /\ Stored(s).currentOrder # NullOrder

\* C37: no id has a session in the sessions Map while it is in expiredSessions,
\* whatever chat messages, sweeps, resets and test-expiration requests came before.
C37_StoredOrKnownExpired ==
  \A s \in SessionIds : ~(sessions[s] # NoObj /\ s \in expiredSessions)

\* C37, its case: the session of an id expired while a handler of that id waited for
\* the order; the handler has since issued a code on the object it held, and the id
\* is known-expired and has no stored session.
C37_ExpiredUnderSuspendedHandler ==
  \E s \in SessionIds :
    /\ s \in expiredSessions
    /\ sessions[s] = NoObj
    /\ reply.sid = s
    /\ reply.response = OtpIssuedReply(s, "").response

\* C38: the chat handler of api/index.ts resolves the session of a message as the
\* chat handler of server.ts does from the same sessions, expiredSessions and clock:
\* a known-expired id gets the expiry reply; a stored session idle for more than
\* SESSION_EXPIRATION gets the expiry reply and is removed and marked expired, and is
\* not accepted; otherwise the session is created or kept, with lastActive = now.
C38_ServerlessResolvesLikeServer ==
  [][\A s \in SessionIds : \A message \in ServerlessMessages :
       (ApiChat(s, message) /\ ~ApiChatNoDatabase(s, message))
       => /\ s \in expiredSessions => ChatKnownExpired(s, message)
          /\ IdleExpired(s) => ChatIdleExpired(s, message)
          /\ Live(s) => /\ sessions'[s] = ObjFor(s)
                        /\ heap'[ObjFor(s)].lastActive = now
                        /\ s \notin expiredSessions']_vars

\* the times at which a session can be stamped so that the clock of the model still
\* runs past its idle limit
EarlyTimes == {t \in 0 .. MaxTime : t + SESSION_EXPIRATION < MaxTime}
\* the timer will fire again, or has fired and its callback is due
SweepAhead == now < MaxTime \/ sweepDue

\* C39: with time passing and the sweep run whenever it is due, a stored session
\* whose lastActive stays as it is (no further message is accepted for it) is
\* eventually out of the sessions Map; and an id that is in expiredSessions is
\* eventually out of it with no session stored, so that the next message for it
\* creates a new session.
C39_SweepEventuallyCleans ==
  \A s \in RequestsSessions :
    /\ \A t \in EarlyTimes :
         (sessions[s] # NoObj /\ Stored(s).lastActive = t)
         ~> (sessions[s] = NoObj \/ Stored(s).lastActive # t)
    /\ (s \in expiredSessions /\ SweepAhead)
         ~> (s \notin expiredSessions /\ sessions[s] = NoObj)

\* C39, its case: the sweep has removed the idle session of a client that sent
\* nothing more, and the id is not, or no longer, known-expired.
C39_SweptAndForgotten ==
  \E s \in RequestsSessions :
    /\ s \in idleSwept
    /\ sessions[s] = NoObj
    /\ s \notin expiredSessions
    /\ reply = NoReply

====
